---- MODULE Spec2Model ----
(***************************************************************************)
(* The SDA host of lib/sda/host.go: stores of entity lists and trees, the  *)
(* pending queues, the dispatch loop ProcessMessages with its five frame   *)
(* types, the checkPendingSDA goroutine, SendRaw / SendSDA and             *)
(* StartNewProtocol.  Two hosts run the same code and talk over ordered,   *)
(* reliable connections.                                                    *)
(***************************************************************************)
EXTENDS Integers, Sequences, FiniteSets, TLC

\* ------------------------------------------------------------------ bounds
\* successful SendSDA calls in one run
MaxSend == 2
\* frames a connection holds that its reader has not received yet
MaxWire == 1
\* SendRaw calls of application code in one run
MaxRaw == 1
\* rounds minted by StartNewProtocol in one run
MaxRounds == 1
\* rounds minted in one run of the specification of repeated starts
MaxStartRounds == 2
\* calls of the AddTree API per host by the application (test) code
MaxAddTree == 1
\* calls of Listen per host
MaxListen == 2
\* successful connects on the local transport
MaxConnect == 2
\* packets one end of a local connection sends
MaxPackets == 2
MaxRequests == 3
MaxFrames == 2
MaxListenCalls == 2

\* ---------------------------------------------------------------- topology
Hosts == {"A", "B"}
\* uuid.Nil
Nil == "nil"
ProtocolIds == {"ProtocolChannels"}
EntityListIds == {"R1"}
\* the rosters a host can hold: R2 is a roster no tree of the model is built on
RosterIds == EntityListIds \cup {"R2"}
TreeIds == {"T1"}
\* the tree of GenTree(3, ...): a root with two children
TreeNodeIds(t) == {"n0", "n1", "n2"}
AllTreeNodeIds == UNION {TreeNodeIds(t) : t \in TreeIds}
TreeRoot(t) == "n0"
TreeEntityList(t) == "R1"
\* TreeNode.Entity: the root lives on host A, both children on host B
NodeEntity(n) == IF n = "n0" THEN "A" ELSE "B"
\* TreeNode.Children
NodeChildren(n) == IF n = "n0" THEN {"n1", "n2"} ELSE {}
\* payload types of the test protocol
MsgTypes == {"NodeTestMsg", "NodeTestAggMsg"}

\* ------------------------------------------------------------------ tokens
Tokens ==
    [ProtocolID : ProtocolIds, EntityListID : EntityListIds, TreeID : TreeIds,
     RoundID : 1..MaxRounds, TreeNodeID : AllTreeNodeIds \cup {Nil}]
\* a nil *Token
NilToken ==
    [ProtocolID |-> Nil, EntityListID |-> Nil, TreeID |-> Nil, RoundID |-> 0,
     TreeNodeID |-> Nil]
\* fault injected for C9: a missing TreeNodeID is replaced by the root's
OtherTokenRooted(t, tn) ==
    [t EXCEPT !.TreeNodeID = IF tn = Nil THEN "n0" ELSE tn]
\* Token.OtherToken: the same session seen from tree node tn
OtherToken(t, tn) == [t EXCEPT !.TreeNodeID = tn]
\* fault injected for C13: every protocol id counts as registered
ProtocolExistsAny(p) == TRUE
\* the global protocol registry filled by RegisterNewProtocol in init()
ProtocolExists(p) == p \in ProtocolIds
\* Tree.GetNode: nil when the id is no node of the tree
GetNode(t, id) == IF id \in TreeNodeIds(t) THEN id ELSE Nil
\* TreeNode.IsInTree
IsInTree(tn, t) == tn \in TreeNodeIds(t)

VARIABLES
    listening,          \* hosts whose Listen() runs an accept loop
    connections,        \* h.connections: peers with a registered connection
    entities,           \* h.entities: peers ever registered by registerConnection
    networkChan,        \* frames on their way to h's dispatcher, oldest first
    entityLists,        \* h.entityLists (ids)
    trees,              \* h.trees (ids)
    treesLock,          \* TRUE when h.treesLock is held and never released
    pendingTreeMarshal, \* h.pendingTreeMarshal: roster id -> tree marshals
    pendingTreeLock,    \* TRUE when h.pendingTreeLock is held and never released
    pendingSDAs,        \* h.pendingSDAs
    rescans,            \* checkPendingSDA goroutines spawned and not yet run, per tree
    blocked,            \* TRUE when h's dispatcher waits for a lock nobody releases
    mapper,             \* h.mapper: token -> index of the instance in nodes[h]
    nodes,              \* every protocol instance constructed on h, in order
    nextRound,          \* next RoundID StartNewProtocol mints
    sendCount,          \* SendSDA calls that put an envelope on a connection
    addTreeCalls,       \* AddTree calls made by application code, per host
    taken,              \* history: the envelopes the dispatcher took, in order
    delivered,          \* history: envelopes handed to DispatchToInstance
    sendResult,         \* outcome of the latest SendSDA call
    closed,             \* TRUE once Close() has closed the channel h.closed
    rawResult,          \* outcome of the latest SendRaw call of application code
    rawCount,           \* SendRaw calls made by application code
    startResult,        \* the error the latest StartNewProtocol call returned
    connIn,             \* frames the connection of h holds for c.Receive
    recvPc,             \* handleConn of h: where its receive goroutine stands
    fwdPc,              \* handleConn of h: where its forwarding loop stands
    connAm,             \* handleConn of h: the frames c.Receive returned so far
                        \* (n), and the frame each goroutine holds (0: none)
    inAddTree,          \* the tree an AddTree call on h is storing, treesLock held
    flags,              \* Node.flags: per node and payload type, a bitmask
    flagOp,             \* the last call of SetFlag, ClearFlag or RegisterChannel
    listenLoops,        \* the goroutines of Host.Listen inside h.host.Listen
    lm,                 \* the LocalManager: queues (its keys), listening, baseUID,
                        \* and the history of the endpoints it made
    ends,               \* every LocalConn made, by the uid of its local endpoint
    lls,                \* the LocalListeners: bound address, listening, whether
                        \* ll.quit is closed, and the Listen calls not yet returned
    localCall,          \* the last call on the local transport and what it returned
    proc,               \* the ServiceProcessor: functions, and the last GetReply call
    identity            \* the identity service: the Storage of one identity, and
                        \* the last ProposeVote call

\* the state read and written only by the operations of shutdown, of the
\* connection readers and of the observers of single calls
callVars == <<rawResult, rawCount>>
readerVars == <<connIn, recvPc, fwdPc, connAm>>
localVars == <<lm, ends, lls, localCall>>
apiVars == <<flags, flagOp, listenLoops, localVars, proc, identity>>
sideVars == <<closed, callVars, readerVars, inAddTree, apiVars>>
auxVars == <<sideVars, startResult>>

vars ==
    <<listening, connections, entities, networkChan, entityLists, trees, treesLock,
      pendingTreeMarshal, pendingTreeLock, pendingSDAs, rescans, blocked, mapper, nodes, nextRound, sendCount, addTreeCalls, taken, delivered,
      sendResult, auxVars>>

NoInstances == [tok \in {} |-> 0]
NoSend == [from |-> "none", err |-> "none", frames |-> 0]
NoRaw == [err |-> "none", sendOk |-> FALSE]
\* the flag bit AggregateMessages, and the bits a caller can pass
AggregateMessagesFlag == 1
FlagBits == {AggregateMessagesFlag, 2 * AggregateMessagesFlag}
\* the nodes whose flags are followed, and the payload types: uuid.Nil and
\* the registered ones
FlagNodes == {"n0", "n1"}
FlagTypes == MsgTypes \cup {Nil}
NoFlagOp == [op |-> "none", n |-> Nil, ty |-> Nil, f |-> 0]
\* the addresses of the local transport and the listeners made on them
LocalAddrs == Hosts
LocalListeners == {"L1", "L2"}
NoEnds == [u \in {} |-> 0]
NoLocalCall == [op |-> "none", err |-> "none"]
\* the Listen calls of a listener that have not returned, by where they
\* stand: before reading ll.quit, waiting on the channel that is ll.quit now,
\* waiting on an open channel that a later Listen replaced, and waiting on a
\* closed channel
NoListenCalls == [read |-> 0, cur |-> 0, stale |-> 0, ready |-> 0]
\* the message types a ServiceProcessor is asked about, the payloads of
\* TestProcessor_GetReply, and the handlers that can be registered: procMsg,
\* and handlers that return (nil, nil), a reply with an error, and an error
\* of empty text
ProcTypes == {"testMsg", "otherMsg"}
ProcPayloads == {11, 42}
Handlers == {"procMsg", "nilNil", "replyAndErr", "emptyErr"}
NilBody == [type |-> "nil"]
StatusRet(text) == [type |-> "StatusRet", Status |-> text]
StatusOK == StatusRet("")
\* the identity service: a Config is its devices and its threshold, a nil
\* *Config is NilConfig; a signature is valid, wrong, or empty (the vote is
\* a rejection); sid.Votes maps the signers that voted to their signature
MaxBlocks == 2
Devices == {"d1", "d2", "d3"}
Signatures == {"valid", "wrong", "empty"}
NilConfig == [Device |-> {}, Threshold |-> 0]
GenesisConfig == [Device |-> {"d1", "d2"}, Threshold |-> 2]
Configs ==
    {[Device |-> D, Threshold |-> t] : D \in {{"d1", "d2"}, Devices}, t \in {2, 3}}
NoVotes == [d \in {} |-> "empty"]
NewStorage ==
    [Latest |-> GenesisConfig, Proposed |-> NilConfig, Votes |-> NoVotes, Data |-> 0]
NoVoteCall ==
    [Signer |-> Nil, Signature |-> Nil, err |-> "none", created |-> FALSE,
     counted |-> NoVotes]

NoGetReply == [mt |-> Nil, i |-> 0, handler |-> Nil, ret |-> [reply |-> NilBody, err |-> Nil],
               reply |-> NilBody]

\* NewHost: every store empty
Init ==
    /\ listening = [h \in Hosts |-> FALSE]
    /\ connections = [h \in Hosts |-> {}]
    /\ entities = [h \in Hosts |-> {}]
    /\ networkChan = [h \in Hosts |-> <<>>]
    /\ entityLists = [h \in Hosts |-> {}]
    /\ trees = [h \in Hosts |-> {}]
    /\ treesLock = [h \in Hosts |-> FALSE]
    /\ pendingTreeMarshal = [h \in Hosts |-> [r \in RosterIds \cup {Nil} |-> <<>>]]
    /\ pendingTreeLock = [h \in Hosts |-> FALSE]
    /\ pendingSDAs = [h \in Hosts |-> <<>>]
    /\ rescans = [h \in Hosts |-> [t \in TreeIds |-> 0]]
    /\ blocked = [h \in Hosts |-> FALSE]
    /\ mapper = [h \in Hosts |-> NoInstances]
    /\ nodes = [h \in Hosts |-> <<>>]
    /\ nextRound = 1
    /\ sendCount = 0
    /\ addTreeCalls = [h \in Hosts |-> 0]
    /\ taken = [h \in Hosts |-> <<>>]
    /\ delivered = [h \in Hosts |-> <<>>]
    /\ sendResult = NoSend
    /\ closed = [h \in Hosts |-> FALSE]
    /\ rawResult = NoRaw
    /\ rawCount = 0
    /\ startResult = "none"
    /\ connIn = [h \in Hosts |-> 0]
    /\ recvPc = [h \in Hosts |-> "off"]
    /\ fwdPc = [h \in Hosts |-> "off"]
    /\ connAm = [h \in Hosts |-> [n |-> 0, recv |-> 0, fwd |-> 0]]
    /\ inAddTree = [h \in Hosts |-> Nil]
    /\ flags = [n \in FlagNodes |-> [ty \in FlagTypes |-> 0]]
    /\ flagOp = NoFlagOp
    /\ listenLoops = [h \in Hosts |-> 0]
    /\ lm = [queues |-> {}, listening |-> [a \in LocalAddrs |-> Nil], baseUID |-> 0,
             made |-> <<>>]
    /\ ends = NoEnds
    /\ lls = [l \in LocalListeners |->
                [addr |-> Nil, listening |-> FALSE, quitClosed |-> FALSE,
                 calls |-> NoListenCalls]]
    /\ localCall = NoLocalCall
    /\ proc = [functions |-> [mt \in ProcTypes |-> Nil], call |-> NoGetReply]
    /\ identity = [sid |-> NewStorage, call |-> NoVoteCall]

\* ------------------------------------------------- instances (node layer)
\* the constructor registered for the protocol: NewProtocolChannels binds a
\* single channel for NodeTestMsg and an aggregate channel for NodeTestAggMsg
NewProtocolChannels(tok, tn) ==
    [tok |-> tok, tn |-> tn, Incoming |-> <<>>, IncomingAgg |-> <<>>,
     msgQueue |-> <<>>, started |-> 0, body |-> "blocked"]
\* the payload types whose channel has the slice shape
AggregateMessages == {"NodeTestAggMsg"}
\* the tree node the instance registered under tok runs at: StartNewProtocol
\* registers the root's instance under a token that carries no TreeNodeID
TokenTreeNode(tok) ==
    IF tok.TreeNodeID = Nil THEN TreeRoot(tok.TreeID) ELSE tok.TreeNodeID
\* one record of a channel: the sender's tree node and the payload
ChannelRecord(sda) == [TreeNode |-> TokenTreeNode(sda.From), I |-> sda.Msg.I]
\* the tree nodes that have a record in an aggregation buffer
Senders(q) == {q[i].TreeNode : i \in 1..Len(q)}
\* fault injected for C7: every aggregate-type envelope is delivered at once
NodeDispatchEager(n, sda) ==
    IF sda.MsgType \in AggregateMessages
      THEN [n EXCEPT !.IncomingAgg = Append(@, <<ChannelRecord(sda)>>)]
      ELSE [n EXCEPT !.Incoming = Append(@, ChannelRecord(sda))]
\* delivery of one envelope to an instance: a single record for a single
\* channel; for an aggregate channel the record is buffered until every
\* direct child has one in the buffer, and then the buffer is delivered
NodeDispatch(n, sda) ==
    IF sda.MsgType \in AggregateMessages
      THEN LET q == Append(n.msgQueue, ChannelRecord(sda))
           IN  IF NodeChildren(n.tn) \subseteq Senders(q)
                 THEN [n EXCEPT !.IncomingAgg = Append(@, q), !.msgQueue = <<>>]
                 ELSE [n EXCEPT !.msgQueue = q]
      ELSE [n EXCEPT !.Incoming = Append(@, ChannelRecord(sda))]
\* the capacity of a channel registered by reference
ChannelCap == 100
\* fault injected for C18: the instance channel holds one record only
ChannelHasRoomForOne(n) == Len(n.Incoming) < 1
\* the dispatcher's write into the single channel of instance n returns at
\* once while the channel is not full, and waits for a reader otherwise
ChannelHasRoom(n) == Len(n.Incoming) < ChannelCap

\* protocolMapper.RegisterProtocolInstance: the registry keyed by the token
RegisterProtocolInstance(mp, tok, idx) ==
    [x \in DOMAIN mp \cup {tok} |-> IF x = tok THEN idx ELSE mp[x]]
\* protocolMapper.Exists / protocolMapper.Instance (nil when absent)
Exists(mp, tok) == tok \in DOMAIN mp

\* Host.protocolInstantiate: its four checks
CanInstantiate(h, tok, tn) ==
    /\ ProtocolExists(tok.ProtocolID)
    /\ tok.TreeID \in trees[h]
    /\ tok.EntityListID \in entityLists[h]
    /\ IsInTree(tn, tok.TreeID)
\* Host.protocolInstantiate: run the constructor and register the instance
\* under the token; st is the pair [nodes, mapper] of host h
protocolInstantiate(h, st, tok, tn) ==
    IF CanInstantiate(h, tok, tn)
      THEN [nodes |-> Append(st.nodes, NewProtocolChannels(tok, tn)),
            mapper |-> RegisterProtocolInstance(st.mapper, tok, Len(st.nodes) + 1),
            delivered |-> st.delivered]
      ELSE st
\* protocolMapper.DispatchToInstance: hand the envelope to the instance
\* registered under sda.To, if any
DispatchToInstance(st, sda) ==
    IF Exists(st.mapper, sda.To)
      THEN [st EXCEPT !.nodes[st.mapper[sda.To]] = NodeDispatch(@, sda),
                      !.delivered = Append(@, sda)]
      ELSE st
\* the instance state of host h read and written by one handler
InstState(h) == [nodes |-> nodes[h], mapper |-> mapper[h], delivered |-> delivered[h]]
SetInstState(h, st) ==
    /\ nodes' = [nodes EXCEPT ![h] = st.nodes]
    /\ mapper' = [mapper EXCEPT ![h] = st.mapper]
    /\ delivered' = [delivered EXCEPT ![h] = st.delivered]

\* ------------------------------------------------------------------ network
\* the connections and the frames in flight, as read and written by one handler
Net == [connections |-> connections, entities |-> entities, networkChan |-> networkChan]
SetNet(net) ==
    /\ connections' = net.connections
    /\ entities' = net.entities
    /\ networkChan' = net.networkChan
\* Host.Connect succeeds when the transport can open a connection: the peer
\* accepts and the own transport host is not closed
CanOpen(h, e) == listening[e] /\ ~closed[h]
\* Host.SendRaw returns nil when the entity is registered with a connection,
\* or is not registered and can be connected to
CanSendRaw(net, h, e) ==
    IF e \in net.entities[h] THEN e \in net.connections[h] ELSE CanOpen(h, e)
\* Host.Connect and registerConnection on both ends of a new connection
Connect(conns, h, e) ==
    [x \in Hosts |->
       conns[x] \cup (IF x = h THEN {e} ELSE {}) \cup (IF x = e THEN {h} ELSE {})]
\* Conn.Send on h's connection to e: it fails once the peer has closed it
SendSucceeds(h, e) == ~closed[e]
\* Host.SendRaw: connect if needed and put the frame on the connection to e;
\* nothing is sent when the connection cannot be opened, and a frame the
\* transport refuses is lost
SendRaw(net, h, e, msgType, msg) ==
    IF CanSendRaw(net, h, e)
      THEN [connections |-> IF e \in net.entities[h] THEN net.connections
                            ELSE Connect(net.connections, h, e),
            entities |-> Connect(net.entities, h, e),
            networkChan |->
              IF SendSucceeds(h, e)
                THEN [net.networkChan EXCEPT
                        ![e] = Append(@, [MsgType |-> msgType, Entity |-> h, Msg |-> msg])]
                ELSE net.networkChan]
      ELSE net
\* fault injected for C8: To is the sender's token, not its peer view
SDADataSameTo(from, tn, msgType, i) ==
    [To |-> from, From |-> from, MsgType |-> msgType, Msg |-> [I |-> i]]
\* Host.SendSDAToTreeNode, lines 212-217: the envelope and its way out
SDAData(from, tn, msgType, i) ==
    [To |-> OtherToken(from, tn), From |-> from, MsgType |-> msgType,
     Msg |-> [I |-> i]]
SendSDAToTreeNode(net, h, from, tn, msgType, i) ==
    SendRaw(net, h, NodeEntity(tn), "SDAData", SDAData(from, tn, msgType, i))

\* Host.receive: the dispatcher of h takes the oldest frame
Frame(h) == Head(networkChan[h])
Receive(h, msgType) ==
    /\ ~blocked[h]
    /\ networkChan[h] # <<>>
    /\ Frame(h).MsgType = msgType
\* the network as the handler of that frame finds it
NetRest(h) ==
    [connections |-> connections, entities |-> entities,
     networkChan |-> [networkChan EXCEPT ![h] = Tail(@)]]

\* ------------------------------------------------------------ API actions
\* Host.Listen, called on a host that is not closed
Listen(h) ==
    /\ listenLoops[h] < MaxListen
    /\ ~closed[h]
    /\ listening' = [listening EXCEPT ![h] = TRUE]
    /\ listenLoops' = [listenLoops EXCEPT ![h] = @ + 1]
    /\ UNCHANGED <<connections, entities, networkChan, entityLists, trees, treesLock,
                   pendingTreeMarshal, pendingTreeLock, pendingSDAs, rescans,
                   blocked, mapper, nodes, nextRound, sendCount, addTreeCalls,
                   taken, delivered, sendResult, closed, callVars, readerVars,
                   inAddTree, flags, flagOp, localVars, proc, identity,
                   startResult>>
\* the application calls Listen once, when the host is made
ListenOnce(h) == listenLoops[h] = 0 /\ Listen(h)

\* Host.AddEntityList called by the application
AddEntityList(h, il) ==
    /\ il \notin entityLists[h]
    /\ entityLists' = [entityLists EXCEPT ![h] = @ \cup {il}]
    /\ UNCHANGED <<listening, connections, entities, networkChan, trees, treesLock,
                   pendingTreeMarshal, pendingTreeLock, pendingSDAs, rescans,
                   blocked, mapper, nodes, nextRound, sendCount, addTreeCalls,
                   taken, delivered, sendResult, auxVars>>

\* fault injected for C3: adding a tree starts no rescan
checkPendingSDANoSpawn(rs, h, t, k) == rs
\* Host.checkPendingSDA: spawn k goroutines that will rescan for tree t
checkPendingSDA(rs, h, t, k) == [rs EXCEPT ![h][t] = @ + k]

\* Host.AddTree between Lock and Unlock, and its checkPendingSDA: store the
\* tree, spawn the rescan
AddTreeBody(h, t) ==
    /\ addTreeCalls' = [addTreeCalls EXCEPT ![h] = @ + 1]
    /\ trees' = [trees EXCEPT ![h] = @ \cup {t}]
    /\ rescans' = checkPendingSDA(rescans, h, t, 1)
    /\ UNCHANGED <<listening, connections, entities, networkChan, entityLists,
                   pendingTreeMarshal, pendingTreeLock, pendingSDAs, blocked, mapper, nodes, nextRound, sendCount, taken, delivered,
                   sendResult>>
\* Host.AddTree called by the application, as one step
AddTree(h, t) ==
    /\ addTreeCalls[h] < MaxAddTree
    /\ ~treesLock[h]
    /\ AddTreeBody(h, t)
    /\ UNCHANGED <<treesLock, auxVars>>
\* Host.AddTree called by the application, in two steps: the call takes
\* treesLock (line 364) ...
AddTreeLock(h, t) ==
    /\ addTreeCalls[h] < MaxAddTree
    /\ ~treesLock[h]
    /\ treesLock' = [treesLock EXCEPT ![h] = TRUE]
    /\ inAddTree' = [inAddTree EXCEPT ![h] = t]
    /\ UNCHANGED <<listening, connections, entities, networkChan, entityLists, trees,
                   pendingTreeMarshal, pendingTreeLock, pendingSDAs, rescans,
                   blocked, mapper, nodes, nextRound, sendCount, addTreeCalls,
                   taken, delivered, sendResult, closed, callVars, readerVars,
                   apiVars, startResult>>
\* ... and writes h.trees, releases the lock (line 369) and spawns the rescan
AddTreeUnlock(h) ==
    /\ inAddTree[h] # Nil
    /\ AddTreeBody(h, inAddTree[h])
    /\ treesLock' = [treesLock EXCEPT ![h] = FALSE]
    /\ inAddTree' = [inAddTree EXCEPT ![h] = Nil]
    /\ UNCHANGED <<closed, callVars, readerVars, apiVars, startResult>>

\* frames in flight to all hosts
RECURSIVE TotalFrames(_, _)
TotalFrames(chan, hs) ==
    IF hs = {} THEN 0
    ELSE LET h == CHOOSE x \in hs : TRUE
         IN  Len(chan[h]) + TotalFrames(chan, hs \ {h})

\* Host.TreeNodeFromToken: the tree node a token names, Nil with an error
TreeNodeFromToken(h, t) ==
    IF t.TreeID \in trees[h] THEN GetNode(t.TreeID, t.TreeNodeID) ELSE Nil

\* fault injected for C10: the sender token is not checked
SendSDAErrorNoSenderCheck(h, from, to) ==
    IF to.TreeID \notin trees[h] THEN "Didn't find tree"
    ELSE IF TreeNodeFromToken(h, to) = Nil THEN "Didn't find treenode"
    ELSE IF ~CanSendRaw(Net, h, NodeEntity(TreeNodeFromToken(h, to)))
      THEN "connect failed"
    ELSE "nil"
\* Host.SendSDA and Host.SendSDAToTreeNode: the error returned, "nil" for none
SendSDAError(h, from, to) ==
    IF to.TreeID \notin trees[h] THEN "Didn't find tree"
    ELSE IF TreeNodeFromToken(h, to) = Nil THEN "Didn't find treenode"
    ELSE IF ~Exists(mapper[h], from)
      THEN "No protocol instance registered with this token."
    ELSE IF from = NilToken THEN "From-token is nil"
    ELSE IF ~CanSendRaw(Net, h, NodeEntity(TreeNodeFromToken(h, to)))
      THEN "connect failed"
    ELSE "nil"

\* what a SendSDA caller passed as its own token
FromKind(h, from) ==
    IF from = NilToken THEN "nil"
    ELSE IF Exists(mapper[h], from) THEN "registered" ELSE "unregistered"

\* TreeNode.Parent, Nil at the root
NodeParent(n) == IF n = "n0" THEN Nil ELSE "n0"
\* the calls of SendSDA the instances of host h make: NodeTestMsg to a child
\* of the instance's tree node (as ProtocolChannels.Start does) or
\* NodeTestAggMsg to its parent (as TestMsgAggregation does)
SendSDACalls(h) ==
    UNION {{[from |-> nodes[h][i].tok, to |-> OtherToken(nodes[h][i].tok, c),
             msgType |-> "NodeTestMsg"] : c \in NodeChildren(nodes[h][i].tn)} :
           i \in DOMAIN nodes[h]}
    \cup
    {[from |-> nodes[h][i].tok,
      to |-> OtherToken(nodes[h][i].tok, NodeParent(nodes[h][i].tn)),
      msgType |-> "NodeTestAggMsg"] : i \in DOMAIN nodes[h]}
\* calls of SendSDA whose sender token is nil or names no instance of host h
BadSenderCalls(h) ==
    {[from |-> f, to |-> t, msgType |-> "NodeTestMsg"] :
        f \in {NilToken} \cup {x \in Tokens \ DOMAIN mapper[h] : x.RoundID = 1},
        t \in {x \in Tokens : x.RoundID = 1 /\ x.TreeNodeID = "n2"}}

\* Host.SendSDA called by an instance (or by test code) on host h
SendSDA(h, from, to, msgType) ==
    LET err == SendSDAError(h, from, to)
        tn  == TreeNodeFromToken(h, to)
    IN  /\ err = "nil" => sendCount < MaxSend
        /\ SetNet(IF err = "nil"
                    THEN SendSDAToTreeNode(Net, h, from, tn, msgType, sendCount + 1)
                    ELSE Net)
        /\ sendCount' = IF err = "nil" THEN sendCount + 1 ELSE sendCount
        /\ sendResult' =
             [from |-> FromKind(h, from), err |-> err,
              frames |-> TotalFrames(networkChan', Hosts) - TotalFrames(networkChan, Hosts)]
        /\ UNCHANGED <<listening, entityLists, trees, treesLock, pendingTreeMarshal,
                       pendingTreeLock, pendingSDAs, rescans, blocked,
                       mapper, nodes, nextRound, addTreeCalls, taken, delivered,
                       auxVars>>

\* TreeNode.Children in order
ChildrenSeq(n) == IF n = "n0" THEN <<"n1", "n2">> ELSE <<>>
\* ProtocolChannels.Start: send NodeTestMsg{12} to every child, stop at the
\* first error
RECURSIVE Start(_, _, _, _)
Start(net, h, tok, cs) ==
    IF cs = <<>> \/ ~CanSendRaw(net, h, NodeEntity(Head(cs)))
      THEN net
      ELSE Start(SendSDAToTreeNode(net, h, tok, Head(cs), "NodeTestMsg", 12),
                 h, tok, Tail(cs))

\* the token StartNewProtocol builds (lines 236-242): no TreeNodeID is set
StartToken(p, t, round) ==
    [ProtocolID |-> p, EntityListID |-> TreeEntityList(t), TreeID |-> t,
     RoundID |-> round, TreeNodeID |-> Nil]

\* Host.StartNewProtocol: the error returned, "nil" for none
StartNewProtocolError(h, p, t) ==
    IF ~ProtocolExists(p) THEN "Protocol does not exists"
    ELSE IF t \notin trees[h] THEN "TreeId does not exists"
    ELSE IF TreeEntityList(t) \notin entityLists[h] THEN "EntityList does not exists"
    ELSE "nil"
\* fault injected for C12: Start is called a second time
StartInstanceTwice(st, i) == [st EXCEPT !.nodes[i].started = @ + 2]
\* pi.Start() called on the instance of index i: ProtocolChannels.Start sends
\* to the children (see Start), the instance has been started once more
StartInstance(st, i) == [st EXCEPT !.nodes[i].started = @ + 1]

\* Host.StartNewProtocol
StartNewProtocol(h, p, t) ==
    /\ startResult' = StartNewProtocolError(h, p, t)
    /\ IF ~ProtocolExists(p)
         THEN UNCHANGED <<listening, connections, entities, networkChan, entityLists,
                          trees, treesLock, pendingTreeMarshal, pendingTreeLock,
                          pendingSDAs, rescans, blocked, mapper,
                          nodes, nextRound, sendCount, addTreeCalls,
                          taken, delivered, sendResult, sideVars>>
         ELSE
           /\ ~treesLock[h]
           /\ IF t \notin trees[h]
                THEN \* the early return keeps treesLock locked
                     /\ treesLock' = [treesLock EXCEPT ![h] = TRUE]
                     /\ UNCHANGED <<listening, connections, entities, networkChan,
                                    entityLists, trees, pendingTreeMarshal,
                                    pendingTreeLock, pendingSDAs, rescans, blocked,
                                    mapper, nodes, nextRound, sendCount, addTreeCalls,
                                    taken, delivered, sendResult, sideVars>>
                ELSE LET tok == StartToken(p, t, nextRound)
                     IN  /\ IF CanInstantiate(h, tok, TreeRoot(t))
                              THEN /\ SetInstState(h,
                                        StartInstance(
                                          protocolInstantiate(h, InstState(h), tok, TreeRoot(t)),
                                          Len(nodes[h]) + 1))
                                   /\ nextRound' = nextRound + 1
                                   /\ SetNet(Start(Net, h, tok, ChildrenSeq(TreeRoot(t))))
                              ELSE UNCHANGED <<mapper, nodes, delivered, nextRound,
                                               connections, entities, networkChan>>
                         /\ UNCHANGED <<listening, entityLists, trees, treesLock,
                                        pendingTreeMarshal, pendingTreeLock, pendingSDAs,
                                        rescans, blocked, sendCount,
                                        addTreeCalls, taken, sendResult, sideVars>>

\* ------------------------------------------------------ the dispatch loop
\* the envelope as Host.receive and processSDAMessage complete it
Envelope(am) ==
    [To |-> am.Msg.To, From |-> am.Msg.From, MsgType |-> am.Msg.MsgType,
     Msg |-> am.Msg.Msg, Entity |-> am.Entity]

\* fault injected for C14: only an unknown roster counts as missing topology
TopologyMissingRoster(h, sda) == sda.To.EntityListID \notin entityLists[h]
\* processSDAMessage, lines 538-546: the roster or the tree is not known
TopologyMissing(h, sda) ==
    sda.To.EntityListID \notin entityLists[h] \/ sda.To.TreeID \notin trees[h]

\* fault injected for C6: the envelope is dispatched a second time
InstantiateAndDispatchTwice(h, st, sda) ==
    IF Exists(st.mapper, sda.To)
      THEN DispatchToInstance(DispatchToInstance(st, sda), sda)
      ELSE IF CanInstantiate(h, sda.To, GetNode(sda.To.TreeID, sda.To.TreeNodeID))
        THEN DispatchToInstance(
               protocolInstantiate(h, st, sda.To,
                                   GetNode(sda.To.TreeID, sda.To.TreeNodeID)), sda)
        ELSE st
\* processSDAMessage, lines 547-558: instantiate when no instance exists, and
\* dispatch; an instantiation error returns before the dispatch
InstantiateAndDispatch(h, st, sda) ==
    IF Exists(st.mapper, sda.To)
      THEN DispatchToInstance(st, sda)
      ELSE IF CanInstantiate(h, sda.To, GetNode(sda.To.TreeID, sda.To.TreeNodeID))
        THEN DispatchToInstance(
               protocolInstantiate(h, st, sda.To,
                                   GetNode(sda.To.TreeID, sda.To.TreeNodeID)), sda)
        ELSE st

\* the instance the dispatcher hands sda to: the registered one, or the one
\* processSDAMessage instantiates
TargetInstance(h, sda) ==
    IF Exists(mapper[h], sda.To)
      THEN nodes[h][mapper[h][sda.To]]
      ELSE NewProtocolChannels(sda.To, GetNode(sda.To.TreeID, sda.To.TreeNodeID))
\* the dispatcher's hand-off returns: nothing is handed off, the record goes
\* to the aggregation buffer, or the single channel has room
CanDeliver(h, sda) ==
    \/ ~Exists(mapper[h], sda.To)
         /\ ~CanInstantiate(h, sda.To, GetNode(sda.To.TreeID, sda.To.TreeNodeID))
    \/ sda.MsgType \in AggregateMessages
    \/ ChannelHasRoom(TargetInstance(h, sda))

\* ProcessMessages, case SDADataMessage: Host.processSDAMessage with
\* requestTree and addPendingSda
ProcessSDAMessage(h) ==
    /\ Receive(h, "SDAData")
    /\ LET sda == Envelope(Frame(h))
       IN  /\ taken' = [taken EXCEPT ![h] = Append(@, sda)]
           /\ IF ~ProtocolExists(sda.To.ProtocolID)
                THEN /\ SetNet(NetRest(h))
                     /\ UNCHANGED <<pendingSDAs, mapper, nodes, delivered>>
                ELSE IF TopologyMissing(h, sda)
                  THEN \* GetTree waits for treesLock, addPendingSda for pendingSDAsLock
                       /\ sda.To.EntityListID \in entityLists[h] => ~treesLock[h]
                       /\ pendingSDAs' = [pendingSDAs EXCEPT ![h] = Append(@, sda)]
                       /\ SetNet(SendRaw(NetRest(h), h, sda.Entity, "RequestTree",
                                         [TreeID |-> sda.To.TreeID]))
                       /\ UNCHANGED <<mapper, nodes, delivered>>
                  ELSE /\ ~treesLock[h]
                       /\ CanDeliver(h, sda)
                       /\ SetInstState(h, InstantiateAndDispatch(h, InstState(h), sda))
                       /\ SetNet(NetRest(h))
                       /\ UNCHANGED pendingSDAs
    /\ UNCHANGED <<listening, entityLists, trees, treesLock, pendingTreeMarshal,
                   pendingTreeLock, rescans, blocked, nextRound,
                   sendCount, addTreeCalls, sendResult, auxVars>>

\* fault injected for C28: the marshal of the empty tree, whatever the tree
MakeTreeMarshalEmpty(t) == [NodeId |-> Nil, EntityId |-> Nil]
\* Tree.MakeTreeMarshal of a stored tree, and of the empty Tree{}
MakeTreeMarshal(t) ==
    IF t = Nil THEN [NodeId |-> Nil, EntityId |-> Nil]
    ELSE [NodeId |-> t, EntityId |-> TreeEntityList(t)]

\* ProcessMessages, case RequestTreeMessage
ProcessRequestTree(h) ==
    /\ Receive(h, "RequestTree")
    /\ LET tid == Frame(h).Msg.TreeID
       IN  SetNet(SendRaw(NetRest(h), h, Frame(h).Entity, "SendTree",
                          MakeTreeMarshal(IF tid \in trees[h] THEN tid ELSE Nil)))
    /\ UNCHANGED <<listening, entityLists, trees, treesLock, pendingTreeMarshal,
                   pendingTreeLock, pendingSDAs, rescans, blocked,
                   mapper, nodes, nextRound, sendCount, addTreeCalls,
                   taken, delivered, sendResult, auxVars>>

\* ProcessMessages, case SendTreeMessage, with addPendingTreeMarshal
\* fault injected for C31: the check of the tree-marshal's id is left out
EmptyTreeNever(tm) == FALSE
\* "Received an empty Tree": the tree-marshal carries no id
EmptyTree(tm) == tm.NodeId = Nil

ProcessSendTree(h) ==
    /\ Receive(h, "SendTree")
    /\ LET tm == Frame(h).Msg
       IN  IF EmptyTree(tm)
             THEN /\ SetNet(NetRest(h))
                  /\ UNCHANGED <<trees, pendingTreeMarshal, rescans, blocked>>
             ELSE IF tm.EntityId \notin entityLists[h]
               THEN /\ SetNet(SendRaw(NetRest(h), h, Frame(h).Entity,
                                      "RequestEntityList", [EntityListID |-> tm.EntityId]))
                    /\ IF pendingTreeLock[h]
                         THEN /\ blocked' = [blocked EXCEPT ![h] = TRUE]
                              /\ UNCHANGED pendingTreeMarshal
                         ELSE /\ pendingTreeMarshal' =
                                   [pendingTreeMarshal EXCEPT ![h][tm.EntityId] = Append(@, tm)]
                              /\ UNCHANGED blocked
                    /\ UNCHANGED <<trees, rescans>>
               ELSE \* AddTree spawns one rescan, line 320 a second one
                    /\ ~treesLock[h]
                    /\ SetNet(NetRest(h))
                    /\ trees' = [trees EXCEPT ![h] = @ \cup {tm.NodeId}]
                    /\ rescans' = checkPendingSDA(rescans, h, tm.NodeId, 2)
                    /\ UNCHANGED <<pendingTreeMarshal, blocked>>
    /\ UNCHANGED <<listening, entityLists, treesLock, pendingTreeLock, pendingSDAs,
                   mapper, nodes, nextRound, sendCount, addTreeCalls,
                   taken, delivered, sendResult, auxVars>>

\* ProcessMessages, case RequestEntityListMessage
ProcessRequestEntityList(h) ==
    /\ Receive(h, "RequestEntityList")
    /\ LET id == Frame(h).Msg.EntityListID
       IN  SetNet(SendRaw(NetRest(h), h, Frame(h).Entity, "SendEntityList",
                          [Id |-> IF id \in entityLists[h] THEN id ELSE Nil]))
    /\ UNCHANGED <<listening, entityLists, trees, treesLock, pendingTreeMarshal,
                   pendingTreeLock, pendingSDAs, rescans, blocked,
                   mapper, nodes, nextRound, sendCount, addTreeCalls,
                   taken, delivered, sendResult, auxVars>>

\* the trees of a list of tree marshals, and how often tree t is among them
RECURSIVE CountTree(_, _)
CountTree(sl, t) ==
    IF sl = <<>> THEN 0
    ELSE (IF Head(sl).NodeId = t THEN 1 ELSE 0) + CountTree(Tail(sl), t)

\* Host.checkPendingTreeMarshal: every tree marshal pending under the roster
\* is made a tree and added with AddTree, which spawns a rescan each time
checkPendingTreeMarshal(h, il) ==
    LET sl == pendingTreeMarshal[h][il]
    IN  /\ trees' = [trees EXCEPT ![h] = @ \cup {sl[i].NodeId : i \in 1..Len(sl)}]
        /\ rescans' = [rescans EXCEPT ![h] = [t \in TreeIds |-> @[t] + CountTree(sl, t)]]

\* ProcessMessages, case SendEntityListMessage
ProcessSendEntityList(h) ==
    /\ Receive(h, "SendEntityList")
    /\ SetNet(NetRest(h))
    /\ LET il == Frame(h).Msg.Id
       IN  IF il = Nil
             THEN UNCHANGED <<entityLists, trees, rescans, pendingTreeLock, blocked>>
             ELSE /\ entityLists' = [entityLists EXCEPT ![h] = @ \cup {il}]
                  /\ IF pendingTreeLock[h]
                       THEN \* the dispatcher waits for pendingTreeLock for ever
                            /\ blocked' = [blocked EXCEPT ![h] = TRUE]
                            /\ UNCHANGED <<trees, rescans, pendingTreeLock>>
                       ELSE IF pendingTreeMarshal[h][il] = <<>>
                         THEN \* the early return of line 650 keeps the lock
                              /\ pendingTreeLock' = [pendingTreeLock EXCEPT ![h] = TRUE]
                              /\ UNCHANGED <<trees, rescans, blocked>>
                         ELSE IF treesLock[h]
                           THEN \* AddTree waits for treesLock, pendingTreeLock held
                                /\ pendingTreeLock' = [pendingTreeLock EXCEPT ![h] = TRUE]
                                /\ blocked' = [blocked EXCEPT ![h] = TRUE]
                                /\ UNCHANGED <<trees, rescans>>
                           ELSE /\ checkPendingTreeMarshal(h, il)
                                /\ UNCHANGED <<pendingTreeLock, blocked>>
    /\ UNCHANGED <<listening, treesLock, pendingTreeMarshal, pendingSDAs, mapper, nodes, nextRound, sendCount, addTreeCalls,
                   taken, delivered, sendResult, auxVars>>

\* ------------------------------------------- the checkPendingSDA goroutine
\* the body of the loop for one pending envelope (lines 589-609): an envelope
\* of tree t is instantiated, without asking whether an instance exists, and
\* dispatched
RescanBody(h, st, t, sda) ==
    IF t = sda.To.TreeID /\ CanInstantiate(h, sda.To, GetNode(t, sda.To.TreeNodeID))
      THEN DispatchToInstance(
             protocolInstantiate(h, st, sda.To, GetNode(t, sda.To.TreeNodeID)), sda)
      ELSE st
\* the loop over h.pendingSDAs (line 588)
RECURSIVE RescanLoop(_, _, _, _)
RescanLoop(h, st, t, sdas) ==
    IF sdas = <<>> THEN st
    ELSE RescanLoop(h, RescanBody(h, st, t, Head(sdas)), t, Tail(sdas))
\* some envelope makes the loop call protocolInstantiate as far as GetTree
NeedsTreesLock(t, sdas) ==
    \E i \in 1..Len(sdas) :
       /\ t = sdas[i].To.TreeID
       /\ GetNode(t, sdas[i].To.TreeNodeID) # Nil
       /\ ProtocolExists(sdas[i].To.ProtocolID)

\* one goroutine spawned by Host.checkPendingSDA runs: it holds
\* pendingSDAsLock from before the loop until after it
checkPendingSDAGo(h, t) ==
    /\ rescans[h][t] > 0
    /\ NeedsTreesLock(t, pendingSDAs[h]) => ~treesLock[h]
    /\ rescans' = [rescans EXCEPT ![h][t] = @ - 1]
    /\ SetInstState(h, RescanLoop(h, InstState(h), t, pendingSDAs[h]))
    /\ UNCHANGED <<listening, connections, entities, networkChan, entityLists, trees,
                   treesLock, pendingTreeMarshal, pendingTreeLock, pendingSDAs,
                   blocked, nextRound, sendCount, addTreeCalls, taken,
                   sendResult, auxVars>>

\* the variables of the stores, the dispatcher and the instances
coreVars ==
    <<listening, connections, entities, networkChan, entityLists, trees, treesLock,
      pendingTreeMarshal, pendingTreeLock, pendingSDAs, rescans, blocked, mapper,
      nodes, nextRound, sendCount, addTreeCalls, taken, delivered, sendResult>>

\* -------------------------------------------------------------- node flags
\* Node.SetFlag, ClearFlag and HasFlag on the bitmask of one payload type
SetFlagMask(m, f) == IF (m \div f) % 2 = 1 THEN m ELSE m + f
\* fault injected for C19: ClearFlag toggles the bit
ClearFlagToggle(m, f) == IF (m \div f) % 2 = 1 THEN m - f ELSE m + f
ClearFlagMask(m, f) == IF (m \div f) % 2 = 1 THEN m - f ELSE m
HasFlagMask(m, f) == (m \div f) % 2 = 1
\* n.SetFlag(ty, f)
SetFlag(n, ty, f) ==
    /\ flags' = [flags EXCEPT ![n][ty] = SetFlagMask(@, f)]
    /\ flagOp' = [op |-> "SetFlag", n |-> n, ty |-> ty, f |-> f]
    /\ UNCHANGED <<coreVars, closed, callVars, readerVars, inAddTree, startResult,
                   listenLoops, localVars, proc, identity>>
\* n.ClearFlag(ty, f)
ClearFlag(n, ty, f) ==
    /\ flags' = [flags EXCEPT ![n][ty] = ClearFlagMask(@, f)]
    /\ flagOp' = [op |-> "ClearFlag", n |-> n, ty |-> ty, f |-> f]
    /\ UNCHANGED <<coreVars, closed, callVars, readerVars, inAddTree, startResult,
                   listenLoops, localVars, proc, identity>>
\* n.RegisterChannel of a channel whose elements are slices: the payload
\* type gets the AggregateMessages flag
RegisterChannel(n, ty) ==
    /\ ty \in AggregateMessages
    /\ flags' = [flags EXCEPT ![n][ty] = SetFlagMask(@, AggregateMessagesFlag)]
    /\ flagOp' = [op |-> "RegisterChannel", n |-> n, ty |-> ty, f |-> AggregateMessagesFlag]
    /\ UNCHANGED <<coreVars, closed, callVars, readerVars, inAddTree, startResult,
                   listenLoops, localVars, proc, identity>>

\* ------------------------------------------------------ the local transport
\* the variables of the hosts, which the local transport leaves alone
hostVars ==
    <<coreVars, closed, callVars, readerVars, inAddTree, startResult, flags, flagOp,
      listenLoops, proc, identity>>
\* fault injected for C24: every address counts as listening
IsListeningAlways(m, addr) == TRUE
\* LocalManager.isListening, and the lookup in connect: addr has a callback
IsListening(m, addr) == m.listening[addr] # Nil
\* NewLocalListenerWithManager and LocalListener.bind: listener l is made for
\* addr unless the manager has a callback for addr
NewLocalListener(l, addr) ==
    /\ lls[l].addr = Nil
    /\ IF IsListening(lm, addr)
         THEN /\ localCall' = [op |-> "bind", err |-> "already listening", l |-> l]
              /\ UNCHANGED lls
         ELSE /\ localCall' = [op |-> "bind", err |-> "nil", l |-> l]
              /\ lls' = [lls EXCEPT ![l].addr = addr]
    /\ UNCHANGED <<hostVars, lm, ends>>
\* the Listen calls of listener l that have not returned
Outstanding(l) ==
    lls[l].calls.read + lls[l].calls.cur + lls[l].calls.stale + lls[l].calls.ready
\* LocalListener.Listen up to its Unlock, with LocalManager.setListening: a
\* new channel becomes ll.quit, and the calls waiting on the old open one
\* wait on a channel nobody holds any more
LocalListen(l) ==
    /\ lls[l].addr # Nil
    /\ lm' = [lm EXCEPT !.listening[lls[l].addr] = l]
    /\ lls' = [lls EXCEPT ![l].listening = TRUE,
                          ![l].quitClosed = FALSE,
                          ![l].calls = [@ EXCEPT !.read = @ + 1,
                                                 !.stale = @ + lls[l].calls.cur,
                                                 !.cur = 0]]
    /\ localCall' = [op |-> "listen", err |-> "nil", l |-> l,
                     replaced |-> lm.listening[lls[l].addr]]
    /\ UNCHANGED <<hostVars, ends>>
\* close(ll.quit): the calls waiting on ll.quit can return
StopCloses(c) == [c EXCEPT !.ready = @ + c.cur, !.cur = 0]
\* Listen after its Unlock: the call reads ll.quit, without the lock, and
\* waits on that channel
LocalListenWait(l) ==
    /\ lls[l].calls.read > 0
    /\ lls' = [lls EXCEPT ![l].calls =
                  IF lls[l].quitClosed
                    THEN [@ EXCEPT !.read = @ - 1, !.ready = @ + 1]
                    ELSE [@ EXCEPT !.read = @ - 1, !.cur = @ + 1]]
    /\ UNCHANGED <<hostVars, lm, ends, localCall>>
\* <-ll.quit on a closed channel: Listen returns nil
LocalListenReturn(l) ==
    /\ lls[l].calls.ready > 0
    /\ lls' = [lls EXCEPT ![l].calls.ready = @ - 1]
    /\ localCall' = [op |-> "listen returned", err |-> "nil", l |-> l]
    /\ UNCHANGED <<hostVars, lm, ends>>
\* LocalListener.Stop, with LocalManager.unsetListening
LocalStop(l) ==
    /\ lls[l].addr # Nil
    /\ lm' = [lm EXCEPT !.listening[lls[l].addr] = Nil]
    /\ lls' = [lls EXCEPT ![l].listening = FALSE,
                          ![l].quitClosed = IF lls[l].listening THEN TRUE ELSE @,
                          ![l].calls = IF lls[l].listening THEN StopCloses(@) ELSE @]
    /\ localCall' = [op |-> "stop", err |-> "nil", l |-> l]
    /\ UNCHANGED <<hostVars, ends>>

\* newLocalConn: a connection end with an empty, open queue
NewEnd(addr, remote) ==
    [addr |-> addr, remote |-> remote, queue |-> <<>>, isClosed |-> FALSE,
     pop |-> "idle", sent |-> <<>>, got |-> <<>>, closing |-> "no"]
\* fault injected for C26: the counter is not advanced
NextUIDSame(uid) == uid
\* lm.baseUID++
NextUID(uid) == uid + 1
\* fault injected for C40: only the outgoing endpoint is registered
ConnectKeysOut(out, inc) == {out}
\* the keys LocalManager.connect adds to lm.queues
ConnectKeys(out, inc) == {out, inc}
\* LocalManager.connect
LocalConnect(local, remote) ==
    IF ~IsListening(lm, remote)
      THEN /\ localCall' = [op |-> "connect", err |-> "not listening"]
           /\ UNCHANGED <<hostVars, lm, ends, lls>>
      ELSE LET out == lm.baseUID
               inc == NextUID(out)
           IN  /\ lm.baseUID < 2 * MaxConnect
               /\ lm' = [lm EXCEPT !.baseUID = NextUID(inc),
                                   !.queues = @ \cup ConnectKeys(out, inc),
                                   !.made = @ \o <<[addr |-> local, uid |-> out],
                                                   [addr |-> remote, uid |-> inc]>>]
               /\ ends' = [u \in DOMAIN ends \cup {out, inc} |->
                             IF u = out THEN NewEnd(local, inc)
                             ELSE IF u = inc THEN NewEnd(remote, out)
                             ELSE ends[u]]
               /\ localCall' = [op |-> "connect", err |-> "nil", out |-> out,
                                callback |-> lm.listening[remote]]
               /\ UNCHANGED <<hostVars, lls>>

\* fault injected for C21: the packet is put in front of the queue
PushFront(q, p) == <<p>> \o q
\* connQueue.push on an open queue
Push(q, p) == Append(q, p)
\* LocalConn.Send with LocalManager.send and connQueue.push: the packet is
\* the number of the send on this end
LocalSend(u) ==
    LET r == ends[u].remote
        p == Len(ends[u].sent) + 1
    IN  /\ Len(ends[u].sent) < MaxPackets
        /\ IF r \notin lm.queues
             THEN /\ localCall' = [op |-> "send", err |-> "ErrClosed", u |-> u,
                                   pushed |-> FALSE]
                  /\ UNCHANGED ends
             ELSE /\ localCall' = [op |-> "send", err |-> "nil", u |-> u,
                                   pushed |-> ~ends[r].isClosed]
                  /\ ends' = [ends EXCEPT
                                ![u].sent = Append(@, p),
                                ![r].queue = IF ends[r].isClosed THEN @ ELSE Push(@, p)]
        /\ UNCHANGED <<hostVars, lm, lls>>

\* fault injected for C22: a closed queue is read to its end first
PopFailsWhenEmpty(e) == e.isClosed /\ e.queue = <<>>
\* connQueue.pop returns ErrClosed (lines 289 and 294)
PopFails(e) == e.isClosed
\* connQueue.pop once it does not wait: ErrClosed from a closed queue, the
\* oldest packet otherwise
PopReturn(u) ==
    IF PopFails(ends[u])
      THEN /\ localCall' = [op |-> "receive", err |-> "ErrClosed", u |-> u]
           /\ ends' = [ends EXCEPT ![u].pop = "idle"]
      ELSE /\ localCall' = [op |-> "receive", err |-> "nil", u |-> u]
           /\ ends' = [ends EXCEPT ![u].pop = "idle",
                                   ![u].queue = Tail(@),
                                   ![u].got = Append(@, Head(ends[u].queue))]
\* LocalConn.Receive is called: connQueue.pop returns or waits on the
\* condition
LocalReceive(u) ==
    /\ ends[u].pop = "idle"
    /\ IF ends[u].queue = <<>> /\ ~ends[u].isClosed
         THEN /\ localCall' = [op |-> "receive", err |-> "waiting", u |-> u]
              /\ ends' = [ends EXCEPT ![u].pop = "waiting"]
         ELSE PopReturn(u)
    /\ UNCHANGED <<hostVars, lm, lls>>
\* a waiting connQueue.pop is woken by push's Signal or close's Broadcast
LocalWake(u) ==
    /\ ends[u].pop = "waiting"
    /\ ends[u].queue # <<>> \/ ends[u].isClosed
    /\ PopReturn(u)
    /\ UNCHANGED <<hostVars, lm, lls>>

\* LocalConn.Close, first half: connQueue.close on the own queue; a Close
\* call on an end on which Close has returned before is marked "again"
LocalCloseQueue(u) ==
    /\ ends[u].closing \in {"no", "done"}
    /\ ends' = [ends EXCEPT ![u].isClosed = TRUE,
                            ![u].closing = IF @ = "no" THEN "queue" ELSE "again"]
    /\ localCall' = [op |-> "close", err |-> "running", u |-> u]
    /\ UNCHANGED <<hostVars, lm, lls>>
\* fault injected for C23: only the closing end is removed
CloseKeysLocal(u, r) == {u}
\* the keys LocalManager.close deletes from lm.queues
CloseKeys(u, r) == {u, r}
\* LocalConn.Close, second half: LocalManager.close removes both endpoints
\* and closes the remote queue if it was registered
LocalCloseManager(u) ==
    LET r == ends[u].remote
    IN  /\ ends[u].closing \in {"queue", "again"}
        /\ lm' = [lm EXCEPT !.queues = @ \ CloseKeys(u, r)]
        /\ ends' = [ends EXCEPT ![u].closing = "done",
                                ![r].isClosed = @ \/ r \in lm.queues]
        /\ localCall' = [op |-> "close", err |-> "nil", u |-> u,
                         again |-> ends[u].closing = "again"]
        /\ UNCHANGED <<hostVars, lls>>

\* ------------------------------------------------- the service processor
\* ServiceProcessor.RegisterMessage of a well-formed handler for type mt
RegisterMessage(mt, f) ==
    /\ proc' = [proc EXCEPT !.functions[mt] = f]
    /\ UNCHANGED <<coreVars, closed, callVars, readerVars, inAddTree, startResult,
                   flags, flagOp, listenLoops, localVars, identity>>
\* what handler f returns for a message of payload i: the reply and the error
HandlerCall(f, mt, i) ==
    IF f = "procMsg"
      THEN IF i = 42
             THEN [reply |-> NilBody, err |-> "ServiceProcessor received 42"]
             ELSE [reply |-> [type |-> mt, I |-> i], err |-> Nil]
    ELSE IF f = "nilNil" THEN [reply |-> NilBody, err |-> Nil]
    ELSE IF f = "replyAndErr" THEN [reply |-> [type |-> mt, I |-> i], err |-> "failed"]
    ELSE [reply |-> NilBody, err |-> ""]
\* fault injected for C27: the error is looked at after the reply
GetReplyReplyFirst(functions, mt, i) ==
    IF functions[mt] = Nil
      THEN StatusRet("Didn't register message-handler")
      ELSE LET ret == HandlerCall(functions[mt], mt, i)
           IN  IF ret.reply # NilBody THEN ret.reply
               ELSE IF ret.err # Nil THEN StatusRet(ret.err)
               ELSE StatusOK
\* ServiceProcessor.GetReply
GetReply(functions, mt, i) ==
    IF functions[mt] = Nil
      THEN StatusRet("Didn't register message-handler")
      ELSE LET ret == HandlerCall(functions[mt], mt, i)
           IN  IF ret.err # Nil THEN StatusRet(ret.err)
               ELSE IF ret.reply = NilBody THEN StatusOK
               ELSE ret.reply
\* GetReply is called with a message of type mt and payload i
GetReplyCall(mt, i) ==
    /\ proc' = [proc EXCEPT !.call =
                  [mt |-> mt, i |-> i, handler |-> proc.functions[mt],
                   ret |-> IF proc.functions[mt] = Nil THEN NoGetReply.ret
                           ELSE HandlerCall(proc.functions[mt], mt, i),
                   reply |-> GetReply(proc.functions, mt, i)]]
    /\ UNCHANGED <<coreVars, closed, callVars, readerVars, inAddTree, startResult,
                   flags, flagOp, listenLoops, localVars, identity>>

\* ------------------------------------------------------ blocking instances
\* the test driver releases instance i of host h: BlockingProtocol.Dispatch
\* passes <-bp.stopBlockChan and waits on its channel
Release(h, i) ==
    /\ nodes[h][i].body = "blocked"
    /\ nodes' = [nodes EXCEPT ![h][i].body = "reading"]
    /\ UNCHANGED <<listening, connections, entities, networkChan, entityLists, trees,
                   treesLock, pendingTreeMarshal, pendingTreeLock, pendingSDAs,
                   rescans, blocked, mapper, nextRound, sendCount, addTreeCalls,
                   taken, delivered, sendResult, auxVars>>
\* BlockingProtocol.Dispatch reads one record from bp.Incoming and signals
\* doneChan
DispatchBody(h, i) ==
    /\ nodes[h][i].body = "reading"
    /\ nodes[h][i].Incoming # <<>>
    /\ nodes' = [nodes EXCEPT ![h][i].body = "done", ![h][i].Incoming = Tail(@)]
    /\ UNCHANGED <<listening, connections, entities, networkChan, entityLists, trees,
                   treesLock, pendingTreeMarshal, pendingTreeLock, pendingSDAs,
                   rescans, blocked, mapper, nextRound, sendCount, addTreeCalls,
                   taken, delivered, sendResult, auxVars>>

\* ----------------------------------------------------------------- shutdown
\* Host.Close, called once: close every connection and the transport host,
\* empty h.connections (h.entities is kept) and close the channel h.closed;
\* the listener's Stop closes its current quit channel, which ends the
\* goroutine of the last Listen call only
Close(h) ==
    /\ ~closed[h]
    /\ connections' = [connections EXCEPT ![h] = {}]
    /\ listening' = [listening EXCEPT ![h] = FALSE]
    /\ closed' = [closed EXCEPT ![h] = TRUE]
    /\ listenLoops' = [listenLoops EXCEPT ![h] = IF @ > 0 THEN @ - 1 ELSE 0]
    /\ UNCHANGED <<entities, networkChan, entityLists, trees, treesLock,
                   pendingTreeMarshal, pendingTreeLock, pendingSDAs, rescans,
                   blocked, mapper, nodes, nextRound, sendCount, addTreeCalls,
                   taken, delivered, sendResult, callVars, readerVars, inAddTree,
                   flags, flagOp, localVars, proc, identity,
                   startResult>>

\* Host.SendRaw: the error returned, "nil" for none; nilMsg says that the
\* caller passed no message
SendRawError(net, h, e, nilMsg) ==
    IF nilMsg THEN "Can't send nil-packet"
    ELSE IF e \notin net.entities[h] /\ ~CanOpen(h, e) THEN "connect failed"
    ELSE IF e \in net.entities[h] /\ e \notin net.connections[h]
      THEN "Got no connection tied to this Entity"
    ELSE "nil"

\* Host.SendRaw called by application code with a RequestTree message, or
\* with a nil message
SendRawCall(h, e, nilMsg) ==
    /\ rawCount < MaxRaw
    /\ rawCount' = rawCount + 1
    /\ SetNet(IF nilMsg THEN Net
                     ELSE SendRaw(Net, h, e, "RequestTree", [TreeID |-> "T1"]))
    /\ rawResult' =
         [err |-> SendRawError(Net, h, e, nilMsg),
          sendOk |-> TotalFrames(networkChan', Hosts) > TotalFrames(networkChan, Hosts)]
    /\ UNCHANGED <<listening, entityLists, trees, treesLock, pendingTreeMarshal,
                   pendingTreeLock, pendingSDAs, rescans, blocked, mapper, nodes,
                   nextRound, sendCount, addTreeCalls, taken, delivered,
                   sendResult, closed, readerVars, inAddTree, apiVars, startResult>>

\* ------------------------------------------------ the connection readers
\* the capacity of h.networkChan as NewHost makes it
NetworkChanCap == 1
\* the other host
Peer(h) == CHOOSE e \in Hosts : e # h
\* the transport connection of h to its peer is open: neither end closed it
ConnOpen(h) == Peer(h) \in entities[h] /\ ~closed[h] /\ ~closed[Peer(h)]

\* Host.Connect called by application code: open a connection, register it
\* on both ends, and run handleConn on both ends (line 149 on the caller's
\* side, the accept function of Listen on the peer's)
ConnectCall(h) ==
    /\ Peer(h) \notin entities[h]
    /\ CanOpen(h, Peer(h))
    /\ connections' = Connect(connections, h, Peer(h))
    /\ entities' = Connect(entities, h, Peer(h))
    /\ recvPc' = [x \in Hosts |-> "select"]
    /\ fwdPc' = [x \in Hosts |-> "select"]
    /\ UNCHANGED <<listening, networkChan, entityLists, trees, treesLock,
                   pendingTreeMarshal, pendingTreeLock, pendingSDAs, rescans,
                   blocked, mapper, nodes, nextRound, sendCount, addTreeCalls,
                   taken, delivered, sendResult, closed, callVars, connIn, connAm,
                   inAddTree, apiVars, startResult>>

\* the peer's Conn.Send puts a frame on the open connection to h
ConnSend(h) ==
    /\ ConnOpen(h)
    /\ connIn[h] < MaxWire
    /\ connIn' = [connIn EXCEPT ![h] = @ + 1]
    /\ UNCHANGED <<coreVars, closed, callVars, recvPc, fwdPc, connAm, inAddTree, apiVars,
                   startResult>>

\* the receive goroutine, at its select: the forwarding loop is sending on
\* doneChan, the goroutine takes the value and returns
recvDone(h) ==
    /\ recvPc[h] = "select"
    /\ fwdPc[h] = "doneChan"
    /\ recvPc' = [recvPc EXCEPT ![h] = "returned"]
    /\ fwdPc' = [fwdPc EXCEPT ![h] = "select"]
    /\ UNCHANGED <<coreVars, closed, callVars, connIn, connAm, inAddTree, apiVars, startResult>>
\* the receive goroutine, at its select: nothing on doneChan, the default
\* case calls c.Receive
recvDefault(h) ==
    /\ recvPc[h] = "select"
    /\ fwdPc[h] # "doneChan"
    /\ recvPc' = [recvPc EXCEPT ![h] = "Receive"]
    /\ UNCHANGED <<coreVars, closed, callVars, connIn, fwdPc, connAm, inAddTree, apiVars,
                   startResult>>
\* c.Receive returns: the closed error once an end closed the connection, a
\* frame when one is there, or some other error; the goroutine goes on to
\* send on errorChan or on msgChan
recvReceive(h) ==
    /\ recvPc[h] = "Receive"
    /\ \/ /\ ~ConnOpen(h)
          /\ recvPc' = [recvPc EXCEPT ![h] = "errorChan ErrClosed"]
          /\ UNCHANGED <<connIn, connAm>>
       \/ /\ ConnOpen(h)
          /\ connIn[h] > 0
          /\ connIn' = [connIn EXCEPT ![h] = @ - 1]
          /\ connAm' = [connAm EXCEPT ![h] = [@ EXCEPT !.n = @ + 1, !.recv = connAm[h].n + 1]]
          /\ recvPc' = [recvPc EXCEPT ![h] = "msgChan"]
       \/ /\ ConnOpen(h)
          /\ connIn[h] > 0
          /\ connIn' = [connIn EXCEPT ![h] = @ - 1]
          /\ recvPc' = [recvPc EXCEPT ![h] = "errorChan other"]
          /\ UNCHANGED connAm
    /\ UNCHANGED <<coreVars, closed, callVars, fwdPc, inAddTree, apiVars, startResult>>

\* fault injected for C34: the loop keeps the frame it held before
TakeMsgStale(a) == [a EXCEPT !.recv = 0]
\* am := <-msgChan: the frame passes from the goroutine to the loop
TakeMsg(a) == [a EXCEPT !.fwd = a.recv, !.recv = 0]

\* the forwarding loop, at its select, case <-h.closed: it goes on to send
\* on doneChan
fwdClosed(h) ==
    /\ fwdPc[h] = "select"
    /\ closed[h]
    /\ fwdPc' = [fwdPc EXCEPT ![h] = "doneChan"]
    /\ UNCHANGED <<coreVars, closed, callVars, connIn, recvPc, connAm, inAddTree, apiVars,
                   startResult>>
\* the forwarding loop, at its select, case am := <-msgChan: the goroutine is
\* sending on msgChan; the loop goes on to put the frame on h.networkChan
fwdMsg(h) ==
    /\ fwdPc[h] = "select"
    /\ recvPc[h] = "msgChan"
    /\ recvPc' = [recvPc EXCEPT ![h] = "select"]
    /\ fwdPc' = [fwdPc EXCEPT ![h] = "networkChan"]
    /\ connAm' = [connAm EXCEPT ![h] = TakeMsg(@)]
    /\ UNCHANGED <<coreVars, closed, callVars, connIn, inAddTree, apiVars, startResult>>
\* the forwarding loop, at its select, case e := <-errorChan: it returns on
\* ErrClosed and ErrEOF, and logs any other error
fwdError(h) ==
    /\ fwdPc[h] = "select"
    /\ recvPc[h] \in {"errorChan ErrClosed", "errorChan other"}
    /\ recvPc' = [recvPc EXCEPT ![h] = "select"]
    /\ fwdPc' = [fwdPc EXCEPT ![h] =
                   IF recvPc[h] = "errorChan ErrClosed" THEN "returned" ELSE "select"]
    /\ UNCHANGED <<coreVars, closed, callVars, connIn, connAm, inAddTree, apiVars, startResult>>
\* the forwarding loop at h.networkChan <- am: it waits while the channel is
\* full
fwdPut(h) ==
    /\ fwdPc[h] = "networkChan"
    /\ Len(networkChan[h]) < NetworkChanCap
    /\ networkChan' = [networkChan EXCEPT
                         ![h] = Append(@, [MsgType |-> "Unknown", Entity |-> Peer(h),
                                           Msg |-> connAm[h].fwd])]
    /\ fwdPc' = [fwdPc EXCEPT ![h] = "select"]
    /\ connAm' = [connAm EXCEPT ![h].fwd = 0]
    /\ UNCHANGED <<listening, connections, entities, entityLists, trees, treesLock,
                   pendingTreeMarshal, pendingTreeLock, pendingSDAs, rescans,
                   blocked, mapper, nodes, nextRound, sendCount, addTreeCalls,
                   taken, delivered, sendResult, closed, callVars, connIn, recvPc,
                   inAddTree, apiVars, startResult>>
\* ProcessMessages, default case: a frame of no known type is logged
ProcessDefault(h) ==
    /\ Receive(h, "Unknown")
    /\ SetNet(NetRest(h))
    /\ taken' = [taken EXCEPT ![h] = Append(@, Frame(h))]
    /\ UNCHANGED <<listening, entityLists, trees, treesLock, pendingTreeMarshal,
                   pendingTreeLock, pendingSDAs, rescans, blocked,
                   mapper, nodes, nextRound, sendCount, addTreeCalls,
                   delivered, sendResult, auxVars>>

\* one step of the receive goroutine, of the forwarding loop of handleConn
recvStep(h) == recvDone(h) \/ recvDefault(h) \/ recvReceive(h)
fwdStep(h) == fwdClosed(h) \/ fwdMsg(h) \/ fwdError(h) \/ fwdPut(h)

\* recipient tokens no instance of this program would put in an envelope:
\* one of a protocol that is not registered, one of a tree node that is not
\* in its tree
ForeignTokens ==
    {[ProtocolID |-> "NoProtocol", EntityListID |-> "R1", TreeID |-> "T1",
      RoundID |-> 1, TreeNodeID |-> "n1"],
     [ProtocolID |-> "ProtocolChannels", EntityListID |-> "R1", TreeID |-> "T1",
      RoundID |-> 1, TreeNodeID |-> "nX"],
     [ProtocolID |-> "ProtocolChannels", EntityListID |-> "R1", TreeID |-> "T1",
      RoundID |-> 1, TreeNodeID |-> Nil]}
\* Host.SendRaw called by application code with an SDAData message it built
\* itself, addressed to the token to
SendRawSDA(h, e, to) ==
    /\ rawCount < MaxRaw
    /\ rawCount' = rawCount + 1
    /\ SetNet(SendRaw(Net, h, e, "SDAData",
                      [To |-> to, From |-> to, MsgType |-> "NodeTestMsg",
                       Msg |-> [I |-> 0]]))
    /\ rawResult' =
         [err |-> SendRawError(Net, h, e, FALSE),
          sendOk |-> TotalFrames(networkChan', Hosts) > TotalFrames(networkChan, Hosts)]
    /\ UNCHANGED <<listening, entityLists, trees, treesLock, pendingTreeMarshal,
                   pendingTreeLock, pendingSDAs, rescans, blocked, mapper, nodes,
                   nextRound, sendCount, addTreeCalls, taken, delivered,
                   sendResult, closed, readerVars, inAddTree, apiVars, startResult>>

\* ------------------------------------------------------------ specification
Next ==
    \/ \E h \in Hosts : ListenOnce(h)
    \/ \E h \in Hosts, il \in EntityListIds : AddEntityList(h, il)
    \/ \E h \in Hosts, t \in TreeIds : AddTree(h, t)
    \/ \E p \in ProtocolIds, t \in TreeIds :
         nextRound <= MaxRounds /\ StartNewProtocol(NodeEntity(TreeRoot(t)), p, t)
    \/ \E h \in Hosts : \E c \in SendSDACalls(h) :
         SendSDAError(h, c.from, c.to) = "nil" /\ SendSDA(h, c.from, c.to, c.msgType)
    \/ \E h \in Hosts : ProcessSDAMessage(h)
    \/ \E h \in Hosts : ProcessRequestTree(h)
    \/ \E h \in Hosts : ProcessSendTree(h)
    \/ \E h \in Hosts : ProcessRequestEntityList(h)
    \/ \E h \in Hosts : ProcessSendEntityList(h)
    \/ \E h \in Hosts, t \in TreeIds : checkPendingSDAGo(h, t)

Spec == Init /\ [][Next]_vars

\* the hosts' API alone, no dispatch loop running (StartProcessMessages not
\* called): every SendSDA call, the failing ones included
SendNext ==
    \/ \E h \in Hosts : ListenOnce(h)
    \/ \E h \in Hosts, il \in EntityListIds : AddEntityList(h, il)
    \/ \E h \in Hosts, t \in TreeIds : AddTree(h, t)
    \/ \E p \in ProtocolIds \cup {"NoProtocol"}, t \in TreeIds :
         nextRound <= MaxRounds /\ StartNewProtocol(NodeEntity(TreeRoot(t)), p, t)
    \/ \E h \in Hosts : \E c \in SendSDACalls(h) \cup BadSenderCalls(h) :
         SendSDA(h, c.from, c.to, c.msgType)

SendSpec == Init /\ [][SendNext]_vars

\* Host.ProcessMessages: one turn of the dispatch loop of h, whatever the
\* type of the frame at the head of the ingress queue
ProcessMessages(h) ==
    \/ ProcessSDAMessage(h)
    \/ ProcessRequestTree(h)
    \/ ProcessSendTree(h)
    \/ ProcessRequestEntityList(h)
    \/ ProcessSendEntityList(h)

\* both dispatch loops keep running (StartProcessMessages) and every spawned
\* goroutine is scheduled: a frame at the head of the ingress queue is
\* eventually handled, a spawned rescan eventually runs
Fairness ==
    \A h \in Hosts :
       /\ WF_vars(ProcessMessages(h))
       /\ WF_vars(\E t \in TreeIds : checkPendingSDAGo(h, t))

\* the late-topology scenario: the application adds rosters and trees and
\* starts the protocol at the root, whose Start sends to the children; the
\* instances send nothing further
LiveNext ==
    \/ \E h \in Hosts : ListenOnce(h)
    \/ \E h \in Hosts, il \in EntityListIds : AddEntityList(h, il)
    \/ \E h \in Hosts, t \in TreeIds : AddTree(h, t)
    \/ \E p \in ProtocolIds, t \in TreeIds :
         nextRound <= MaxRounds /\ StartNewProtocol(NodeEntity(TreeRoot(t)), p, t)
    \/ \E h \in Hosts : ProcessMessages(h)
    \/ \E h \in Hosts, t \in TreeIds : checkPendingSDAGo(h, t)

LiveSpec == Init /\ [][LiveNext]_vars /\ Fairness

\* the late-topology scenario with shutdown: either host may be closed at any
\* time, and application code calls SendRaw
CloseNext ==
    \/ \E h \in Hosts : ListenOnce(h)
    \/ \E h \in Hosts, il \in EntityListIds : AddEntityList(h, il)
    \/ \E h \in Hosts, t \in TreeIds : AddTree(h, t)
    \/ \E p \in ProtocolIds, t \in TreeIds :
         nextRound <= MaxRounds /\ StartNewProtocol(NodeEntity(TreeRoot(t)), p, t)
    \/ \E h \in Hosts : ProcessMessages(h)
    \/ \E h \in Hosts, t \in TreeIds : checkPendingSDAGo(h, t)
    \/ \E h \in Hosts : Close(h)
    \/ \E h \in Hosts : \E e \in Hosts \ {h}, nilMsg \in BOOLEAN :
         SendRawCall(h, e, nilMsg)

CloseSpec == Init /\ [][CloseNext]_vars

\* repeated starts: the application starts the protocol more than once, on
\* either host, and calls it with unknown protocols and trees as well
StartNext ==
    \/ \E h \in Hosts : ListenOnce(h)
    \/ \E h \in Hosts, il \in EntityListIds : AddEntityList(h, il)
    \/ \E h \in Hosts, t \in TreeIds : AddTree(h, t)
    \/ \E h \in Hosts, p \in ProtocolIds \cup {"NoProtocol"}, t \in TreeIds :
         nextRound <= MaxStartRounds /\ StartNewProtocol(h, p, t)
    \/ \E h \in Hosts : ProcessMessages(h)
    \/ \E h \in Hosts, t \in TreeIds : checkPendingSDAGo(h, t)

StartSpec == Init /\ [][StartNext]_vars

\* the late-topology scenario with a peer whose application sends envelopes
\* of its own making
\* the application asks e for a tree or a roster: h.SendRaw(e, &RequestTree{id})
\* or h.SendRaw(e, &RequestEntityList{id})
RequestMsgs ==
    {[MsgType |-> "RequestTree", Msg |-> [TreeID |-> t]] : t \in TreeIds}
      \cup {[MsgType |-> "RequestEntityList", Msg |-> [EntityListID |-> il]] :
               il \in RosterIds}

SendRawRequest(h, e, req) ==
    /\ rawCount < MaxRequests
    /\ rawCount' = rawCount + 1
    /\ SetNet(SendRaw(Net, h, e, req.MsgType, req.Msg))
    /\ rawResult' =
         [err |-> SendRawError(Net, h, e, FALSE),
          sendOk |-> TotalFrames(networkChan', Hosts) > TotalFrames(networkChan, Hosts)]
    /\ UNCHANGED <<listening, entityLists, trees, treesLock, pendingTreeMarshal,
                   pendingTreeLock, pendingSDAs, rescans, blocked, mapper, nodes,
                   nextRound, sendCount, addTreeCalls, taken, delivered,
                   sendResult, closed, readerVars, inAddTree, apiVars, startResult>>

RawNext ==
    \/ \E h \in Hosts : ListenOnce(h)
    \/ \E h \in Hosts, il \in EntityListIds : AddEntityList(h, il)
    \/ \E h \in Hosts, t \in TreeIds : AddTree(h, t)
    \/ \E p \in ProtocolIds, t \in TreeIds :
         nextRound <= MaxRounds /\ StartNewProtocol(NodeEntity(TreeRoot(t)), p, t)
    \/ \E h \in Hosts : ProcessMessages(h)
    \/ \E h \in Hosts, t \in TreeIds : checkPendingSDAGo(h, t)
    \/ \E h \in Hosts : \E e \in Hosts \ {h}, to \in ForeignTokens :
         SendRawSDA(h, e, to)

RawSpec == Init /\ [][RawNext]_vars

\* two hosts, a connection between them and its two readers: frames arrive,
\* are forwarded to the ingress queue and taken by the dispatcher, and either
\* host may be closed
ReaderNext ==
    \/ \E h \in Hosts : ListenOnce(h)
    \/ \E h \in Hosts : ConnectCall(h)
    \/ \E h \in Hosts : connAm[h].n + connIn[h] < MaxFrames /\ ConnSend(h)
    \/ \E h \in Hosts : recvStep(h)
    \/ \E h \in Hosts : fwdStep(h)
    \/ \E h \in Hosts : ProcessDefault(h)
    \/ \E h \in Hosts : Close(h)

\* every goroutine that can make a step is scheduled, and so is the
\* dispatch loop
ReaderFairness ==
    \A h \in Hosts :
       /\ WF_vars(recvStep(h))
       /\ WF_vars(fwdStep(h))
       /\ WF_vars(ProcessDefault(h))

ReaderSpec == Init /\ [][ReaderNext]_vars /\ ReaderFairness

\* the late-topology scenario with AddTree in two steps, so that the other
\* threads of the host run while the application is inside AddTree
LockNext ==
    \/ \E h \in Hosts : ListenOnce(h)
    \/ \E h \in Hosts, il \in EntityListIds : AddEntityList(h, il)
    \/ \E h \in Hosts, t \in TreeIds : AddTreeLock(h, t)
    \/ \E h \in Hosts : AddTreeUnlock(h)
    \/ \E p \in ProtocolIds, t \in TreeIds :
         nextRound <= MaxRounds /\ StartNewProtocol(NodeEntity(TreeRoot(t)), p, t)
    \/ \E h \in Hosts : ProcessMessages(h)
    \/ \E h \in Hosts, t \in TreeIds : checkPendingSDAGo(h, t)
    \/ \E h \in Hosts : \E e \in Hosts \ {h} : SendRawCall(h, e, FALSE)

LockSpec == Init /\ [][LockNext]_vars

\* every host listens and has the roster and the tree, as after GenTree
TopologyReady ==
    \A h \in Hosts :
       listening[h] /\ EntityListIds \subseteq entityLists[h] /\ TreeIds \subseteq trees[h]
\* TestBlocking: the topology is registered on every host before the protocol
\* starts, so that the dispatchers see envelopes only; the instances run
\* BlockingProtocol's dispatch body, the root instance sends to its children
\* and the driver releases the instances in any order
BlockNext ==
    \/ \E h \in Hosts : ListenOnce(h)
    \/ \E h \in Hosts, il \in EntityListIds : AddEntityList(h, il)
    \/ \E h \in Hosts, t \in TreeIds : AddTree(h, t)
    \/ \E p \in ProtocolIds, t \in TreeIds :
         /\ nextRound <= MaxRounds
         /\ TopologyReady
         /\ StartNewProtocol(NodeEntity(TreeRoot(t)), p, t)
    \/ \E h \in Hosts : \E c \in SendSDACalls(h) :
         c.msgType = "NodeTestMsg" /\ SendSDA(h, c.from, c.to, c.msgType)
    \/ \E h \in Hosts : ProcessSDAMessage(h)
    \/ \E h \in Hosts, t \in TreeIds : checkPendingSDAGo(h, t)
    \/ \E h \in Hosts : \E i \in DOMAIN nodes[h] : Release(h, i)
    \/ \E h \in Hosts : \E i \in DOMAIN nodes[h] : DispatchBody(h, i)

\* the dispatch loops and the goroutines are scheduled, and so is every
\* dispatch body; the driver need not release an instance
BlockFairness ==
    \A h \in Hosts :
       /\ WF_vars(ProcessSDAMessage(h))
       /\ WF_vars(\E t \in TreeIds : checkPendingSDAGo(h, t))
       /\ WF_vars(\E i \in DOMAIN nodes[h] : DispatchBody(h, i))

BlockSpec == Init /\ [][BlockNext]_vars /\ BlockFairness

\* the flag calls of the nodes, in any order
FlagNext ==
    \/ \E n \in FlagNodes, ty \in FlagTypes, f \in FlagBits : SetFlag(n, ty, f)
    \/ \E n \in FlagNodes, ty \in FlagTypes, f \in FlagBits : ClearFlag(n, ty, f)
    \/ \E n \in FlagNodes, ty \in FlagTypes : RegisterChannel(n, ty)

FlagSpec == Init /\ [][FlagNext]_vars

\* the application calls Listen any number of times; the hosts exchange
\* RequestTree and SendTree frames and close
ListenNext ==
    \/ \E h \in Hosts : Listen(h)
    \/ \E h \in Hosts : \E e \in Hosts \ {h}, nilMsg \in BOOLEAN : SendRawCall(h, e, nilMsg)
    \/ \E h \in Hosts : ProcessRequestTree(h)
    \/ \E h \in Hosts : ProcessSendTree(h)
    \/ \E h \in Hosts : Close(h)

ListenSpec == Init /\ [][ListenNext]_vars

\* the local transport, its listeners: listeners are made, started and
\* stopped and connections are made, in any order
LocalListenNext ==
    \/ \E l \in LocalListeners, a \in LocalAddrs : NewLocalListener(l, a)
    \/ \E l \in LocalListeners :
         ~lls[l].listening /\ Outstanding(l) < MaxListenCalls /\ LocalListen(l)
    \/ \E l \in LocalListeners : LocalStop(l)
    \/ \E a, b \in LocalAddrs : LocalConnect(a, b)

LocalListenSpec == Init /\ [][LocalListenNext]_vars

\* one listener, called from several goroutines: Listen and Stop in any
\* order, and connects to its address
ListenerNext ==
    \/ \E a \in LocalAddrs : NewLocalListener("L1", a)
    \/ Outstanding("L1") < MaxListenCalls /\ LocalListen("L1")
    \/ LocalListenWait("L1")
    \/ LocalListenReturn("L1")
    \/ LocalStop("L1")
    \/ \E a, b \in LocalAddrs : LocalConnect(a, b)

\* a Listen call that can go on does
ListenerFairness ==
    WF_vars(LocalListenWait("L1")) /\ WF_vars(LocalListenReturn("L1"))

ListenerSpec == Init /\ [][ListenerNext]_vars /\ ListenerFairness

\* the local transport, one connection: a listener is made and started, a
\* connection is made, and both ends send, receive and close in any order
LocalConnNext ==
    \/ \E a \in LocalAddrs : NewLocalListener("L1", a)
    \/ ~lls["L1"].listening /\ LocalListen("L1")
    \/ \E a \in LocalAddrs : \E b \in LocalAddrs \ {a} :
         lm.baseUID = 0 /\ LocalConnect(a, b)
    \/ \E u \in DOMAIN ends : LocalSend(u)
    \/ \E u \in DOMAIN ends : LocalReceive(u)
    \/ \E u \in DOMAIN ends : LocalWake(u)
    \/ \E u \in DOMAIN ends : ends[u].closing = "no" /\ LocalCloseQueue(u)
    \/ \E u \in DOMAIN ends : LocalCloseManager(u)

\* a waiting pop that has been signalled runs, and a Close call runs to its end
LocalFairness ==
    \A u \in 0..1 :
       /\ WF_vars(\E v \in DOMAIN ends : v = u /\ LocalWake(v))
       /\ WF_vars(\E v \in DOMAIN ends : v = u /\ LocalCloseManager(v))

LocalConnSpec == Init /\ [][LocalConnNext]_vars /\ LocalFairness

\* the local manager with up to MaxConnect connections: a listener is made
\* and started, connections are made, and every end is closed any number of
\* times, in any order
LocalManagerNext ==
    \/ \E a \in LocalAddrs : NewLocalListener("L1", a)
    \/ ~lls["L1"].listening /\ LocalListen("L1")
    \/ \E a \in LocalAddrs : \E b \in LocalAddrs \ {a} : LocalConnect(a, b)
    \/ \E u \in DOMAIN ends : LocalCloseQueue(u)
    \/ \E u \in DOMAIN ends : LocalCloseManager(u)

LocalManagerSpec == Init /\ [][LocalManagerNext]_vars

\* handlers are registered and GetReply is called, in any order
ProcNext ==
    \/ \E mt \in ProcTypes, f \in Handlers : RegisterMessage(mt, f)
    \/ \E mt \in ProcTypes, i \in ProcPayloads : GetReplyCall(mt, i)

ProcSpec == Init /\ [][ProcNext]_vars

\* ------------------------------------------------------- identity service
\* Service.Propagate on the Storage s of the identity: a proposal replaces
\* Proposed and empties Votes, a vote is stored under its signer whatever
\* its signature is, an UpdateSkipBlock installs the new block and its
\* configuration and clears the proposal and the votes
Propagate(s, msg) ==
    IF msg.type = "ProposeSend"
      THEN [s EXCEPT !.Proposed = msg.Config, !.Votes = NoVotes]
    ELSE IF msg.type = "ProposeVote"
      THEN [s EXCEPT !.Votes = (msg.Signer :> msg.Signature) @@ s.Votes]
    ELSE [s EXCEPT !.Data = msg.Latest, !.Latest = msg.Config,
                   !.Proposed = NilConfig, !.Votes = NoVotes]
\* the checks ProposeVote makes under sid's lock, in the order of the code:
\* the log call reads sid.Proposed.Device before anything else, which
\* panics on a nil Proposed; an empty signature is not verified
VoteError(s, v) ==
    IF s.Proposed = NilConfig THEN "panic: nil pointer dereference"
    ELSE IF v.Signer \notin s.Latest.Device THEN "Didn't find signer"
    ELSE IF s.Proposed = NilConfig THEN "No proposed block"
    ELSE IF v.Signer \in DOMAIN s.Votes THEN "Already voted for that block"
    ELSE IF ~v.timeOk THEN "time difference too large"
    ELSE IF v.Signature # "empty" /\ v.Signature # "valid" THEN "Wrong signature"
    ELSE Nil
\* len(sid.Votes) >= sid.Latest.Threshold || len(sid.Votes) == len(sid.Latest.Device)
EnoughVotes(s) ==
    \/ Cardinality(DOMAIN s.Votes) >= s.Latest.Threshold
    \/ Cardinality(DOMAIN s.Votes) = Cardinality(s.Latest.Device)
\* Service.ProposeSend: the proposal is propagated to the roster
ProposeSend(cfg) ==
    /\ identity' = [identity EXCEPT
                      !.sid = Propagate(@, [type |-> "ProposeSend", Config |-> cfg])]
    /\ UNCHANGED <<coreVars, closed, callVars, readerVars, inAddTree, startResult,
                   flags, flagOp, listenLoops, localVars, proc>>
\* Service.ProposeVote: check the vote, propagate it, and with enough votes
\* stored make the data skipblock of the proposal and propagate it
ProposeVote(v) ==
    LET s == identity.sid
        err == VoteError(s, v)
        voted == Propagate(s, [type |-> "ProposeVote", Signer |-> v.Signer,
                               Signature |-> v.Signature])
        usb == [type |-> "UpdateSkipBlock", Latest |-> s.Data + 1,
                Config |-> s.Proposed]
    IN  /\ identity' =
              [sid |-> IF err # Nil THEN s
                       ELSE IF EnoughVotes(voted) THEN Propagate(voted, usb)
                       ELSE voted,
               call |-> [Signer |-> v.Signer, Signature |-> v.Signature, err |-> err,
                         created |-> err = Nil /\ EnoughVotes(voted),
                         counted |-> IF err = Nil THEN voted.Votes ELSE s.Votes]]
        /\ UNCHANGED <<coreVars, closed, callVars, readerVars, inAddTree, startResult,
                       flags, flagOp, listenLoops, localVars, proc>>
\* the votes clients send
VoteMsgs ==
    [Signer : Devices, Signature : Signatures, timeOk : BOOLEAN]

\* clients of one identity: proposals that keep the devices of the latest
\* configuration, and votes
IdentityNext ==
    \/ \E cfg \in Configs :
          /\ identity.sid.Data < MaxBlocks
          /\ identity.sid.Latest.Device \subseteq cfg.Device
          /\ ProposeSend(cfg)
    \/ \E v \in VoteMsgs : ProposeVote(v)

IdentitySpec == Init /\ [][IdentityNext]_vars

\* hosts that fetch trees and rosters from one another: host A holds the
\* rosters and the tree, host B asks for them
RosterNext ==
    \/ \E h \in Hosts : ListenOnce(h)
    \/ \E il \in RosterIds : AddEntityList("A", il)
    \/ \E t \in TreeIds : AddTree("A", t)
    \/ \E h \in Hosts : ProcessRequestTree(h)
    \/ \E h \in Hosts : ProcessSendTree(h)
    \/ \E h \in Hosts : ProcessRequestEntityList(h)
    \/ \E h \in Hosts : ProcessSendEntityList(h)
    \/ \E h \in Hosts, t \in TreeIds : checkPendingSDAGo(h, t)
    \/ \E req \in RequestMsgs : SendRawRequest("B", "A", req)

\* the dispatcher goroutine of a host keeps running
RosterFairness ==
    \A h \in Hosts :
       WF_vars(ProcessRequestTree(h) \/ ProcessSendTree(h)
                 \/ ProcessRequestEntityList(h) \/ ProcessSendEntityList(h))

RosterSpec == Init /\ [][RosterNext]_vars /\ RosterFairness

\* ------------------------------------------------------------- properties
\* how often x occurs in the sequence s
Count(s, x) == Cardinality({i \in 1..Len(s) : s[i] = x})
InSeq(s, x) == \E i \in 1..Len(s) : s[i] = x
\* the position at which the dispatcher of h took envelope e
TakenIndex(h, e) == CHOOSE k \in 1..Len(taken[h]) : taken[h][k] = e

\* C1: an envelope that was queued as pending (its tree or roster unknown on
\* receipt) is dispatched to the instance at its token at most once over the
\* whole execution, however the tree arrives
C1_PendingDeliveredOnce ==
    \A h \in Hosts : \A i \in 1..Len(pendingSDAs[h]) :
       Count(delivered[h], pendingSDAs[h][i]) <= 1

\* C2: the constructor is run at most once per token on a host, and the
\* registry maps every instance's token to that very instance
C2_OneInstancePerToken ==
    \A h \in Hosts : \A i, j \in DOMAIN nodes[h] :
       /\ nodes[h][i].tok = nodes[h][j].tok => i = j
       /\ Exists(mapper[h], nodes[h][i].tok) /\ mapper[h][nodes[h][i].tok] = i

\* C4: when no rescan is outstanding on a host, every envelope of its pending
\* list names a tree or a roster the host does not know
C4_PendingOnlyUnknown ==
    \A h \in Hosts :
       (\A t \in TreeIds : rescans[h][t] = 0) =>
          \A i \in 1..Len(pendingSDAs[h]) : TopologyMissing(h, pendingSDAs[h][i])

\* C5: two envelopes of one payload type delivered to one token are delivered
\* in the order in which the dispatcher took them from the ingress queue
C5_DeliveryOrder ==
    \A h \in Hosts : \A i, j \in 1..Len(delivered[h]) :
       (/\ i < j
        /\ delivered[h][i].To = delivered[h][j].To
        /\ delivered[h][i].MsgType = delivered[h][j].MsgType)
       => TakenIndex(h, delivered[h][i]) <= TakenIndex(h, delivered[h][j])

\* every envelope of h's pending list has been handed to an instance
AllPendingDelivered(h) ==
    \A i \in 1..Len(pendingSDAs[h]) : InSeq(delivered[h], pendingSDAs[h][i])

\* C3: whenever a host holds an envelope as pending (it did not know the
\* envelope's tree or roster and has asked the sender for the tree), the
\* topology is eventually fetched, the instance instantiated and the envelope
\* delivered to it
C3_LateTopology ==
    \A h \in Hosts : (pendingSDAs[h] # <<>>) ~> AllPendingDelivered(h)
\* host B queued an envelope while it knew neither tree nor roster by its own
\* API, and later delivered it
C3_Witness ==
    /\ pendingSDAs["B"] # <<>>
    /\ addTreeCalls["B"] = 0
    /\ AllPendingDelivered("B")

\* the places (instance, position in its single channel) where the record of
\* envelope e lies, over the instances constructed on h for e's token
RecordSlots(h, e) ==
    UNION {{<<i, k>> : k \in {k \in 1..Len(nodes[h][i].Incoming) :
                                 nodes[h][i].Incoming[k] = ChannelRecord(e)}} :
           i \in {i \in DOMAIN nodes[h] : nodes[h][i].tok = e.To}}
\* the envelopes of a single-channel type that h's dispatcher took while the
\* topology was known
TakenDirect(h) ==
    {taken[h][k] : k \in {k \in 1..Len(taken[h]) :
        /\ taken[h][k].MsgType \notin AggregateMessages
        /\ ~InSeq(pendingSDAs[h], taken[h][k])}}

\* C6: an envelope of a single-channel type that the recipient's dispatcher
\* took while it had, or could instantiate, the instance at the To token has
\* left exactly one record {sender's tree node, payload} in the channel
C6_RoundTrip ==
    \A h \in Hosts : \A e \in TakenDirect(h) :
       /\ Cardinality(RecordSlots(h, e)) = 1
       /\ Count(delivered[h], e) = 1
\* the child on B got the root's NodeTestMsg{12} with the root as its sender
C6_Witness ==
    \E e \in TakenDirect("B") :
       /\ ChannelRecord(e) = [TreeNode |-> "n0", I |-> 12]
       /\ Cardinality(RecordSlots("B", e)) = 1

\* the records of the aggregate-type envelopes delivered to token tok on h
AggRecords(h, tok) ==
    LET s == SelectSeq(delivered[h],
                       LAMBDA e : e.To = tok /\ e.MsgType \in AggregateMessages)
    IN  [k \in 1..Len(s) |-> ChannelRecord(s[k])]
RECURSIVE Flatten(_)
Flatten(ss) == IF ss = <<>> THEN <<>> ELSE Head(ss) \o Flatten(Tail(ss))

\* C7: for an instance with children, the aggregation buffer never holds a
\* record of every child (nothing is delivered before, and the delivery is
\* made when the last child's envelope arrives); each delivery on the
\* aggregate channel holds a record of every child and was completed by its
\* last record; deliveries and buffer together are the envelopes in arrival
\* order
C7_AggregationComplete ==
    \A h \in Hosts : \A i \in DOMAIN nodes[h] :
       LET n == nodes[h][i]
       IN  NodeChildren(n.tn) # {} =>
             /\ ~(NodeChildren(n.tn) \subseteq Senders(n.msgQueue))
             /\ \A b \in 1..Len(n.IncomingAgg) :
                   LET q == n.IncomingAgg[b]
                   IN  /\ NodeChildren(n.tn) \subseteq Senders(q)
                       /\ ~(NodeChildren(n.tn) \subseteq Senders(SubSeq(q, 1, Len(q) - 1)))
             /\ Flatten(n.IncomingAgg) \o n.msgQueue = AggRecords(h, n.tok)
\* the root's instance got one aggregated delivery with a record per child
C7_Witness ==
    \E i \in DOMAIN nodes["A"] :
       /\ Len(nodes["A"][i].IncomingAgg) = 1
       /\ Len(nodes["A"][i].IncomingAgg[1]) = Cardinality(NodeChildren("n0"))
       /\ nodes["A"][i].msgQueue = <<>>

\* C8: every SDAData envelope on the wire has the sender token's ProtocolID,
\* EntityListID, TreeID and RoundID in To, with the TreeNodeID of a tree node
\* of the host it travels to, and in From a token registered on the sender
C8_EnvelopeAddressing ==
    \A h \in Hosts : \A k \in 1..Len(networkChan[h]) :
       LET f == networkChan[h][k]
       IN  f.MsgType = "SDAData" =>
             /\ f.Msg.To.ProtocolID = f.Msg.From.ProtocolID
             /\ f.Msg.To.EntityListID = f.Msg.From.EntityListID
             /\ f.Msg.To.TreeID = f.Msg.From.TreeID
             /\ f.Msg.To.RoundID = f.Msg.From.RoundID
             /\ IsInTree(f.Msg.To.TreeNodeID, f.Msg.To.TreeID)
             /\ NodeEntity(f.Msg.To.TreeNodeID) = h
             /\ Exists(mapper[f.Entity], f.Msg.From)
\* a child on B has put an envelope for the root on the wire to A
C8_Witness ==
    \E k \in 1..Len(networkChan["A"]) :
       /\ networkChan["A"][k].MsgType = "SDAData"
       /\ networkChan["A"][k].Msg.From.TreeNodeID = "n1"
       /\ networkChan["A"][k].Msg.To.TreeNodeID = "n0"

\* two tokens of one session
SameSession(t1, t2) ==
    /\ t1.ProtocolID = t2.ProtocolID
    /\ t1.EntityListID = t2.EntityListID
    /\ t1.TreeID = t2.TreeID
    /\ t1.RoundID = t2.RoundID
\* the tokens instances are registered under, on any host
RegisteredTokens == UNION {DOMAIN mapper[h] : h \in Hosts}

C10_BadSenderFails ==
    sendResult.from \in {"nil", "unregistered"} =>
       sendResult.err # "nil" /\ sendResult.frames = 0
\* the call got as far as the sender check: the To token named a tree node
\* of a known tree, the sender token named no instance
C10_Witness ==
    /\ sendResult.from = "unregistered"
    /\ sendResult.err = "No protocol instance registered with this token."
    /\ \E h \in Hosts : mapper[h] # NoInstances

\* C11: a SendRaw call returns nil only if the frame was handed to a
\* connection whose send succeeded; it returns an error when the message
\* cannot be serialized, no connection can be opened, or the send fails
C11_SendRawReportsFailure ==
    rawResult.err = "nil" => rawResult.sendOk

\* the step is a call of StartNewProtocol on h with a registered protocol and
\* a tree of h's tree store
StartKnownCall(h) ==
    \E p \in ProtocolIds, t \in TreeIds : t \in trees[h] /\ StartNewProtocol(h, p, t)
\* the same, the roster of the tree being in h's roster store as well
StartRosterCall(h) ==
    \E p \in ProtocolIds, t \in TreeIds :
       /\ t \in trees[h]
       /\ TreeEntityList(t) \in entityLists[h]
       /\ StartNewProtocol(h, p, t)
\* the RoundIDs of the tokens of the instances of h
RoundIDs(h) == {nodes[h][i].tok.RoundID : i \in DOMAIN nodes[h]}
\* the step registers exactly one new instance on h, at the root of its tree,
\* under a token whose RoundID no instance of h had, started once
RegistersOneStarted(h) ==
    /\ Len(nodes'[h]) = Len(nodes[h]) + 1
    /\ nodes'[h][Len(nodes'[h])].tn = TreeRoot(nodes'[h][Len(nodes'[h])].tok.TreeID)
    /\ nodes'[h][Len(nodes'[h])].tok.RoundID \notin RoundIDs(h)
    /\ nodes'[h][Len(nodes'[h])].started = 1
    /\ Exists(mapper'[h], nodes'[h][Len(nodes'[h])].tok)
\* the step starts no instance h had, and none it makes
StartsNone(h, made) ==
    /\ Len(nodes'[h]) >= Len(nodes[h])
    /\ \A i \in DOMAIN nodes[h] : nodes'[h][i].started = nodes[h][i].started
    /\ \A i \in made : nodes'[h][i].started = 0

StartUnknownCall(h) ==
    \E p \in ProtocolIds \cup {"NoProtocol"}, t \in TreeIds :
       /\ p \notin ProtocolIds \/ t \notin trees[h]
       /\ StartNewProtocol(h, p, t)

Sent(e) == SubSeq(networkChan'[e], Len(networkChan[e]) + 1, Len(networkChan'[e]))
\* the step of h's dispatcher queues the envelope as pending and asks the
\* sender for the tree, and sends nothing else
PendedAndRequested(h, sda) ==
    /\ pendingSDAs'[h] = Append(pendingSDAs[h], sda)
    /\ Sent(sda.Entity) =
         <<[MsgType |-> "RequestTree", Entity |-> h, Msg |-> [TreeID |-> sda.To.TreeID]]>>
\* the step of h's dispatcher drops the envelope: nothing is queued, made,
\* delivered or sent
Dropped(h, sda) ==
    /\ UNCHANGED <<pendingSDAs, mapper, nodes, delivered>>
    /\ Sent(sda.Entity) = <<>>

ReadersReturned(h) == recvPc[h] = "returned" /\ fwdPc[h] = "returned"

\* C15: after Close() on a host with a connection reader, the receive
\* goroutine and the forwarding loop of handleConn both eventually return
C15_ReadersTerminate ==
    \A h \in Hosts : (closed[h] /\ recvPc[h] # "off") ~> ReadersReturned(h)

\* C16: once a host is closed its dispatch loop takes no frame from the
\* ingress queue and no envelope, fresh or pending, is delivered to an
\* instance; the envelopes pending at Close() are dropped
C16_DispatchStops ==
    [][\A h \in Hosts :
         /\ closed[h] =>
               /\ Len(networkChan'[h]) >= Len(networkChan[h])
               /\ taken'[h] = taken[h]
               /\ delivered'[h] = delivered[h]
         /\ (~closed[h] /\ closed'[h]) => pendingSDAs'[h] = <<>>
    ]_vars

\* the step is one of another thread of h that reads h.trees: the dispatcher
\* serving a RequestTree (line 284), looking up the tree of an envelope
\* (GetTree) or storing a received tree (AddTree), or a caller of
\* StartNewProtocol (line 230)
AccessesTrees(h) ==
    \/ ProcessRequestTree(h)
    \/ /\ ProcessSDAMessage(h)
       /\ ProtocolExists(Envelope(Frame(h)).To.ProtocolID)
       /\ Envelope(Frame(h)).To.EntityListID \in entityLists[h]
    \/ /\ ProcessSendTree(h)
       /\ Frame(h).Msg.NodeId # Nil
       /\ Frame(h).Msg.EntityId \in entityLists[h]
    \/ \E p \in ProtocolIds, t \in TreeIds : StartNewProtocol(h, p, t)

\* C17: a store is read or written only under its lock: while an AddTree
\* call is writing h.trees, no other thread of the host reads or writes
\* h.trees
C17_StoreLocking ==
    [][\A h \in Hosts : inAddTree[h] # Nil => ~AccessesTrees(h)]_vars

\* the payloads an envelope can carry: Start's 12 or the number of the send
Payloads == (1..MaxSend) \cup {12}
\* an envelope for tok with payload i is in the ingress queue of h, which
\* knows its topology, while another instance of h is blocked with unread
\* records in its channel
QueuedBehindBlocked(h, tok, i) ==
    /\ tok.TreeID \in trees[h] /\ tok.EntityListID \in entityLists[h]
    /\ \E k \in 1..Len(networkChan[h]) :
          /\ networkChan[h][k].MsgType = "SDAData"
          /\ networkChan[h][k].Msg.To = tok
          /\ networkChan[h][k].Msg.Msg.I = i
    /\ \E j \in DOMAIN nodes[h] :
          /\ nodes[h][j].tok # tok
          /\ nodes[h][j].body = "blocked"
          /\ nodes[h][j].Incoming # <<>>
DeliveredTo(h, tok, i) ==
    \E k \in 1..Len(delivered[h]) :
       delivered[h][k].To = tok /\ delivered[h][k].Msg.I = i
\* the instance registered under tok has been released and has a record to read
ReleasedWithRecord(h, tok) ==
    /\ Exists(mapper[h], tok)
    /\ nodes[h][mapper[h][tok]].body = "reading"
    /\ nodes[h][mapper[h][tok]].Incoming # <<>>
BodyDone(h, tok) ==
    Exists(mapper[h], tok) /\ nodes[h][mapper[h][tok]].body = "done"

OtherFlagsKept(n, ty) ==
    \A n2 \in FlagNodes, ty2 \in FlagTypes :
       <<n2, ty2>> # <<n, ty>> => flags'[n2][ty2] = flags[n2][ty2]
\* C19: HasFlag(AggregateMessages) is false for every node and payload type
\* before any call, true after SetFlag and false after ClearFlag; a SetFlag
\* on a set flag and a ClearFlag on a cleared flag change nothing, and no
\* call changes the flags of another node or payload type
C19_FlagSemantics ==
    /\ \A n \in FlagNodes, ty \in FlagTypes :
          ~HasFlagMask(flags[n][ty], AggregateMessagesFlag)
    /\ [][\A n \in FlagNodes, ty \in FlagTypes :
            /\ SetFlag(n, ty, AggregateMessagesFlag) =>
                  /\ HasFlagMask(flags'[n][ty], AggregateMessagesFlag)
                  /\ HasFlagMask(flags[n][ty], AggregateMessagesFlag) => flags' = flags
                  /\ OtherFlagsKept(n, ty)
            /\ ClearFlag(n, ty, AggregateMessagesFlag) =>
                  /\ ~HasFlagMask(flags'[n][ty], AggregateMessagesFlag)
                  /\ ~HasFlagMask(flags[n][ty], AggregateMessagesFlag) => flags' = flags
                  /\ OtherFlagsKept(n, ty)]_vars
\* ClearFlag(uuid.Nil, AggregateMessages) has just been called on a node
\* whose other flags, of this and of another payload type, are set
C19_Witness ==
    /\ flagOp = [op |-> "ClearFlag", n |-> "n0", ty |-> Nil, f |-> AggregateMessagesFlag]
    /\ flags["n0"][Nil] = 2 * AggregateMessagesFlag
    /\ HasFlagMask(flags["n0"]["NodeTestAggMsg"], AggregateMessagesFlag)

\* C20: however often Listen is called on a host, one accept loop at most
\* serves the host's address
C20_ListenIdempotent == \A h \in Hosts : listenLoops[h] <= 1

\* s is the beginning of t
IsPrefix(s, t) == Len(s) <= Len(t) /\ SubSeq(t, 1, Len(s)) = s
\* neither end of the connection of u has started to close
LocalOpen(u) ==
    /\ ~ends[u].isClosed /\ ends[u].closing = "no"
    /\ ~ends[ends[u].remote].isClosed /\ ends[ends[u].remote].closing = "no"
\* C21: what an end has received is the beginning of what the other end has
\* sent, in the order of the sends; while the connection is open the rest is
\* in the queue, so that nothing is lost; and no receive returns from a
\* queue that is empty and not closed: it waits
C21_LocalFIFO ==
    /\ [](\A u \in DOMAIN ends :
            /\ IsPrefix(ends[ends[u].remote].got, ends[u].sent)
            /\ LocalOpen(u) =>
                  ends[u].sent = ends[ends[u].remote].got \o ends[ends[u].remote].queue)
    /\ [][\A u \in DOMAIN ends :
            ends[u].queue = <<>> /\ ~ends[u].isClosed =>
               /\ ends'[u].got = ends[u].got
               /\ LocalReceive(u) => ends'[u].pop = "waiting"
               /\ ~LocalWake(u)]_vars
\* an end has just received the second of the two packets the other end
\* sent, the connection still open
C21_Witness ==
    \E u \in DOMAIN ends :
       /\ ends[u].got = <<1, 2>>
       /\ ends[ends[u].remote].sent = <<1, 2>>
       /\ localCall = [op |-> "receive", err |-> "nil", u |-> u]
       /\ LocalOpen(u)

\* Close has returned on one end of the connection of u
LocalClosed(u) ==
    \/ ends[u].closing \in {"done", "again"}
    \/ ends[ends[u].remote].closing \in {"done", "again"}
\* a receive on end u waits although Close has returned on one end
WaitsClosed(u) ==
    IF u \in DOMAIN ends THEN LocalClosed(u) /\ ends[u].pop = "waiting" ELSE FALSE
\* no receive waits on end u
Returned(u) == IF u \in DOMAIN ends THEN ends[u].pop = "idle" ELSE FALSE
\* C22: once Close has returned on either end, every receive on either end
\* returns ErrClosed and takes no packet, also when packets are queued, and
\* a receive that waits returns
C22_LocalClose ==
    /\ [][\A u \in DOMAIN ends :
            LocalClosed(u) /\ (LocalReceive(u) \/ LocalWake(u)) =>
               /\ localCall'.err = "ErrClosed"
               /\ ends'[u].got = ends[u].got]_vars
    /\ \A u \in 0..1 : WaitsClosed(u) ~> Returned(u)
\* a receive has returned ErrClosed on the end whose peer closed, with a
\* packet still in its queue
C22_Witness ==
    \E u \in DOMAIN ends :
       /\ localCall = [op |-> "receive", err |-> "ErrClosed", u |-> u]
       /\ ends[u].queue # <<>>
       /\ ends[u].closing = "no"
       /\ ends[ends[u].remote].closing = "done"

\* C23: once Close has returned on either end of a connection, Send on
\* either end returns ErrClosed and puts nothing into a queue
C23_LocalSendAfterClose ==
    [][\A u \in DOMAIN ends :
         LocalClosed(u) /\ LocalSend(u) =>
            /\ localCall'.err = "ErrClosed"
            /\ ends' = ends]_vars
\* Send has returned ErrClosed on the end that did not call Close and that
\* had sent a packet before
C23_Witness ==
    \E u \in DOMAIN ends :
       /\ localCall = [op |-> "send", err |-> "ErrClosed", u |-> u, pushed |-> FALSE]
       /\ ends[u].closing = "no"
       /\ ends[u].sent = <<1>>
       /\ ends[ends[u].remote].closing = "done"

\* C24: a connect to an address without a callback returns an error and
\* leaves the manager as it was: no queue, no identifier used, no callback run
C24_LocalConnectFails ==
    [][\A a, b \in LocalAddrs :
         lm.listening[b] = Nil /\ LocalConnect(a, b) =>
            /\ localCall'.err \notin {"nil", "none"}
            /\ "callback" \notin DOMAIN localCall'
            /\ lm' = lm /\ ends' = ends]_vars
\* a connect has failed on a manager that has made a connection before and
\* whose listener has stopped since
C24_Witness ==
    /\ localCall = [op |-> "connect", err |-> "not listening"]
    /\ lm.baseUID = 2
    /\ \A a \in LocalAddrs : lm.listening[a] = Nil

\* the listener whose callback the manager has for the address of l
Registered(l) == lm.listening[lls[l].addr]
\* C25: making a listener for an address that has a callback fails, and so
\* does Listen of a second listener on it: the callback of the first stays
C25_LocalDoubleListen ==
    [][/\ \A l \in LocalListeners, a \in LocalAddrs :
            lm.listening[a] # Nil /\ NewLocalListener(l, a) =>
               localCall'.err # "nil" /\ lm' = lm
       /\ \A l \in LocalListeners :
            (lls[l].addr # Nil /\ LocalListen(l)) /\ Registered(l) \notin {Nil, l} =>
               localCall'.err # "nil" /\ lm' = lm]_vars

\* C26: the identifiers of the endpoints a manager made are strictly
\* increasing in the order of their making, hence pairwise distinct
C26_LocalUIDs ==
    \A i, j \in 1..Len(lm.made) : i < j => lm.made[i].uid < lm.made[j].uid
\* two connections between the same pair of addresses have been made
C26_Witness ==
    /\ Len(lm.made) = 4
    /\ lm.made[1].addr = lm.made[3].addr
    /\ lm.made[2].addr = lm.made[4].addr
    /\ lm.made[1].addr # lm.made[2].addr
    /\ lm.queues = {0, 1, 2, 3}

\* C27: GetReply returns a StatusRet with a text when no handler is
\* registered, a StatusRet with the handler's error text when the handler
\* returns an error, StatusOK when it returns (nil, nil), and the handler's
\* reply otherwise
C27_GetReply ==
    LET c == proc.call
    IN  c.mt # Nil =>
          /\ c.handler = Nil => c.reply.type = "StatusRet" /\ c.reply.Status # ""
          /\ c.handler # Nil /\ c.ret.err # Nil =>
                /\ c.reply = StatusRet(c.ret.err)
                /\ c.ret.err # "" => c.reply.Status # ""
          /\ c.handler # Nil /\ c.ret.err = Nil /\ c.ret.reply = NilBody =>
                c.reply = StatusOK
          /\ c.handler # Nil /\ c.ret.err = Nil /\ c.ret.reply # NilBody =>
                c.reply = c.ret.reply
\* the handler returned a reply together with an error, and GetReply
\* returned the error's text
C27_Witness ==
    /\ proc.call.handler = "replyAndErr"
    /\ proc.call.ret.reply # NilBody
    /\ proc.call.reply = StatusRet("failed")

\* the stores of the hosts
Stores ==
    <<connections, entities, entityLists, trees, pendingTreeMarshal, pendingSDAs,
      mapper, nodes>>
\* the step sends exactly the frame of type ty with message msg from h to e,
\* and changes no store
RepliesOnce(h, e, ty, msg) ==
    /\ Sent(e) = <<[MsgType |-> ty, Entity |-> h, Msg |-> msg]>>
    /\ \A x \in Hosts \ {e} : Sent(x) = <<>>
    /\ UNCHANGED Stores
\* the reply the claim names for the request at the head of h's queue
ServesRequest(h) ==
    /\ ProcessRequestTree(h) =>
         LET tid == Frame(h).Msg.TreeID
         IN  RepliesOnce(h, Frame(h).Entity, "SendTree",
                         IF tid \in trees[h]
                           THEN [NodeId |-> tid, EntityId |-> TreeEntityList(tid)]
                           ELSE [NodeId |-> Nil, EntityId |-> Nil])
    /\ ProcessRequestEntityList(h) =>
         LET id == Frame(h).Msg.EntityListID
         IN  RepliesOnce(h, Frame(h).Entity, "SendEntityList",
                         [Id |-> IF id \in entityLists[h] THEN id ELSE Nil])
\* C28: every RequestTree and RequestEntityList frame the dispatcher
\* processes is answered by exactly one reply to the requester, the stored
\* tree or roster or the empty placeholder, and no store changes
C28_OneReply == [][\A h \in Hosts : ServesRequest(h)]_vars
\* C28, amended: the same while neither the host nor the requester has closed
C28_OneReplyOpen ==
    [][\A h \in Hosts :
         networkChan[h] # <<>> /\ ~closed[h] /\ ~closed[Frame(h).Entity] =>
            ServesRequest(h)]_vars
\* a host whose peer is open has the roster it asked for at the head of its
\* queue
C28_Witness ==
    \E h \in Hosts :
       /\ networkChan[h] # <<>>
       /\ Frame(h).MsgType = "SendEntityList"
       /\ Frame(h).Msg.Id # Nil
       /\ ~closed[h] /\ ~closed[Frame(h).Entity]

\* the frame h's dispatcher sends to e to ask for roster il
RosterRequest(h, il) ==
    [MsgType |-> "RequestEntityList", Entity |-> h, Msg |-> [EntityListID |-> il]]
\* what the SendTree case has to do with the non-empty tree-marshal tm that
\* host h took from its queue
HandlesSendTree(h, tm) ==
    IF tm.EntityId \notin entityLists[h]
      THEN /\ Sent(Frame(h).Entity) = <<RosterRequest(h, tm.EntityId)>>
           /\ pendingTreeMarshal'[h][tm.EntityId] =
                Append(pendingTreeMarshal[h][tm.EntityId], tm)
           /\ trees' = trees
      ELSE /\ tm.NodeId \in trees'[h]
           /\ rescans'[h][tm.NodeId] > rescans[h][tm.NodeId]
\* C29: on a SendTree frame with a non-empty tree-marshal, an unknown roster
\* is requested from the sender, the tree-marshal is appended to the
\* pending-trees table under the roster id and the tree store is unchanged;
\* with a known roster the tree is stored and pending envelopes are rechecked
C29_SendTree ==
    [][\A h \in Hosts :
         (ProcessSendTree(h) /\ Frame(h).Msg.NodeId # Nil)
            => HandlesSendTree(h, Frame(h).Msg)]_vars

\* what the SendEntityList case has to do with the non-empty roster il that
\* host h took from its queue
HandlesSendRoster(h, il) ==
    LET sl == pendingTreeMarshal[h][il]
    IN  /\ il \in entityLists'[h]
        /\ \A i \in 1..Len(sl) :
              /\ sl[i].NodeId \in trees'[h]
              /\ rescans'[h][sl[i].NodeId] > rescans[h][sl[i].NodeId]
\* C30: on a SendRoster frame with a non-empty roster the roster is stored
\* and every tree-marshal pending under it is made a stored tree, each
\* addition with its rescan; and the dispatcher goes on with the later
\* frames: whatever is in a host's queue is taken in the end
C30_SendRoster ==
    /\ [][\A h \in Hosts :
            (ProcessSendEntityList(h) /\ Frame(h).Msg.Id # Nil)
               => HandlesSendRoster(h, Frame(h).Msg.Id)]_vars
    /\ \A h \in Hosts : (networkChan[h] # <<>>) ~> (networkChan[h] = <<>>)

\* host h's dispatcher handles an empty reply: a SendTree whose tree-marshal
\* has a nil id or a SendEntityList whose roster has a nil id
HandlesEmptyReply(h) ==
    \/ ProcessSendTree(h) /\ Frame(h).Msg.NodeId = Nil
    \/ ProcessSendEntityList(h) /\ Frame(h).Msg.Id = Nil
\* C31: an empty reply changes nothing: the tree store, the roster store, the
\* pending-trees table and the pending envelopes are unchanged and no
\* instance is created, so no nil tree or nil roster is ever in a store
C31_EmptyReply ==
    /\ [](\A h \in Hosts : Nil \notin trees[h] /\ Nil \notin entityLists[h])
    /\ [][\A h \in Hosts :
            HandlesEmptyReply(h)
               => UNCHANGED <<trees, entityLists, pendingTreeMarshal, pendingSDAs,
                              mapper, nodes>>]_vars
\* a host is about to handle an empty tree reply and, behind it, an empty
\* roster reply
C31_Witness ==
    \E h \in Hosts :
       /\ Len(networkChan[h]) >= 2
       /\ networkChan[h][1].MsgType = "SendTree"
       /\ networkChan[h][1].Msg.NodeId = Nil
       /\ networkChan[h][2].MsgType = "SendEntityList"
       /\ networkChan[h][2].Msg.Id = Nil

\* the envelope names a tree host h knows, with its roster, and a tree node
\* that tree does not have
ForeignNode(h, sda) ==
    /\ ProtocolExists(sda.To.ProtocolID)
    /\ ~TopologyMissing(h, sda)
    /\ ~IsInTree(sda.To.TreeNodeID, sda.To.TreeID)
\* C32: an envelope whose To.TreeNodeID is not a node of the known tree
\* To.TreeID is never delivered and creates no instance, on the direct path
\* and on the rescan of pending envelopes, and the dispatcher goes on
C32_ForeignNodeFails ==
    /\ [](\A h \in Hosts :
            /\ \A k \in 1..Len(delivered[h]) :
                  IsInTree(delivered[h][k].To.TreeNodeID, delivered[h][k].To.TreeID)
            /\ \A i \in 1..Len(nodes[h]) :
                  IsInTree(nodes[h][i].tn, nodes[h][i].tok.TreeID))
    /\ [][\A h \in Hosts :
            (ProcessSDAMessage(h) /\ ForeignNode(h, Envelope(Frame(h))))
               => Dropped(h, Envelope(Frame(h))) /\ ~blocked'[h]]_vars

\* the forwarding loop of h's handleConn returns in this step
ReaderReturns(h) == fwdPc[h] # "returned" /\ fwdPc'[h] = "returned"
\* C33: the reader of a connection terminates when and only when receive
\* reports closed or EOF; any other receive error is logged and the reader
\* keeps reading; and once receive has reported closed the reader ends with
\* neither of its goroutines left blocked
C33_ReaderStateMachine ==
    /\ [][\A h \in Hosts :
            /\ ReaderReturns(h) => recvPc[h] = "errorChan ErrClosed"
            /\ (fwdError(h) /\ recvPc[h] = "errorChan other")
                  => fwdPc'[h] = "select" /\ recvPc'[h] = "select"]_vars
    /\ \A h \in Hosts : (recvPc[h] = "errorChan ErrClosed") ~> ReadersReturned(h)

\* the frames c.Receive has returned on h's connection that are somewhere
\* between the connection and the dispatcher, oldest first: taken by the
\* dispatcher, in the ingress queue, held by the forwarding loop, held by
\* the receive goroutine
FrameIds(q) == [i \in 1..Len(q) |-> q[i].Msg]
HeldId(id) == IF id = 0 THEN <<>> ELSE <<id>>
Pipeline(h) ==
    FrameIds(taken[h]) \o FrameIds(networkChan[h])
      \o HeldId(connAm[h].fwd) \o HeldId(connAm[h].recv)
\* C34: while a host is open, the frames its connection delivered are on
\* their way to the dispatcher in the order of delivery, none lost and none
\* twice, and each of them is taken by the dispatcher in the end
C34_ConnectionFIFO ==
    /\ [](\A h \in Hosts :
            ~closed[h] => Pipeline(h) = [i \in 1..connAm[h].n |-> i])
    /\ \A h \in Hosts : \A i \in 1..MaxFrames :
          (connAm[h].n >= i) ~> (closed[h] \/ Len(taken[h]) >= i)
\* the dispatcher of an open host has taken two frames of its connection
C34_Witness ==
    \E h \in Hosts : ~closed[h] /\ Len(taken[h]) = MaxFrames

\* the connect made in this step succeeded and handed listener l the incoming
\* end that is paired with the outgoing end it returned
AcceptedBy(l) ==
    /\ localCall'.err = "nil"
    /\ localCall'.callback = l
    /\ LET out == localCall'.out
           inc == ends'[out].remote
       IN  /\ inc \notin DOMAIN ends /\ out \notin DOMAIN ends
           /\ ends'[inc].remote = out
           /\ ends'[inc].addr = lls[l].addr
\* C35: a Listen call returns only after a Stop, and once the listener has
\* been stopped every Listen call made before returns; while the listener
\* is listening a connect to its address succeeds and hands its callback the
\* incoming end paired with the returned one; a connect right after Stop
\* fails; whatever the order of the Listen and Stop calls
C35_ListenerLifecycle ==
    /\ [](\A l \in LocalListeners :
            lls[l].calls.ready > 0 => lls[l].quitClosed \/ lls[l].listening)
    /\ [][\A l \in LocalListeners : \A a, b \in LocalAddrs :
            /\ (lls[l].listening /\ lls[l].addr = b /\ LocalConnect(a, b))
                  => AcceptedBy(l)
            /\ (/\ localCall.op = "stop" /\ localCall.l = l /\ lls[l].addr = b
                /\ LocalConnect(a, b))
                  => localCall'.err # "nil" /\ ends' = ends]_vars
    /\ \A l \in LocalListeners :
          (~lls[l].listening) ~> (lls[l].listening \/ Outstanding(l) = 0)

\* C36: ProposeVote makes the data skipblock of the proposal only when at
\* least Threshold devices of the latest configuration, or all of them, cast
\* a vote with a valid signature; a signer outside the latest configuration,
\* a repeated vote, a wrong signature and an empty signature never count
ValidVotes(s, votes) ==
    {d \in DOMAIN votes : d \in s.Latest.Device /\ votes[d] = "valid"}
C36_VotingThreshold ==
    [][\A v \in VoteMsgs :
          (ProposeVote(v) /\ identity'.call.created)
            => \/ Cardinality(ValidVotes(identity.sid, identity'.call.counted))
                    >= identity.sid.Latest.Threshold
               \/ ValidVotes(identity.sid, identity'.call.counted)
                    = identity.sid.Latest.Device]_vars

\* C37: ProposeVote for an identity without a pending proposal returns the
\* error "No proposed block" and leaves Latest, Proposed, Votes and Data as
\* they were
C37_NoProposedBlock ==
    [][\A v \in VoteMsgs :
          (ProposeVote(v) /\ identity.sid.Proposed = NilConfig)
            => /\ identity'.call.err = "No proposed block"
               /\ identity'.sid = identity.sid]_vars

\* C38: every host operation that takes a store lock releases it on every
\* return path: treesLock is held only while an AddTree call is storing its
\* tree, pendingTreeLock is not left locked, and no dispatcher waits for a
\* lock that nobody releases
C38_LocksReleased ==
    \A h \in Hosts :
        /\ treesLock[h] => inAddTree[h] # Nil
        /\ ~pendingTreeLock[h]
        /\ ~blocked[h]

\* C39: each pending tree-marshal is materialised at most once: the
\* SendEntityList handling that converts the pending tree-marshals of a
\* roster leaves none of them in the pending-trees table, and a
\* SendEntityList for a roster the host holds already adds no tree and
\* starts no further dispatch of pending envelopes
Materialises(h) ==
    /\ Frame(h).Msg.Id # Nil
    /\ ~pendingTreeLock[h]
    /\ ~treesLock[h]
    /\ pendingTreeMarshal[h][Frame(h).Msg.Id] # <<>>
C39_MaterialisedOnce ==
    [][\A h \in Hosts :
          /\ (ProcessSendEntityList(h) /\ Materialises(h))
               => pendingTreeMarshal'[h][Frame(h).Msg.Id] = <<>>
          /\ (ProcessSendEntityList(h) /\ Frame(h).Msg.Id \in entityLists[h])
               => trees' = trees /\ rescans' = rescans]_vars

\* the connections on neither end of which Close has returned
OpenConnections ==
    {{u, ends[u].remote} : u \in {v \in DOMAIN ends : ~LocalClosed(v)}}
\* C40: an endpoint is in the manager's queue table if and only if its peer
\* is, and the table holds two endpoints for every open connection; the
\* manager's half of Close removes both endpoints and leaves both queues
\* closed; a Close on a connection on which Close has returned changes
\* neither the table nor a queue
C40_ManagerPairs ==
    /\ [](\A u \in DOMAIN ends : u \in lm.queues <=> ends[u].remote \in lm.queues)
    /\ [](Cardinality(lm.queues) = 2 * Cardinality(OpenConnections))
    /\ [][\A u \in DOMAIN ends :
            LocalCloseManager(u) =>
               /\ {u, ends[u].remote} \cap lm'.queues = {}
               /\ ends'[u].isClosed /\ ends'[ends[u].remote].isClosed]_vars
    /\ [][\A u \in DOMAIN ends :
            LocalClosed(u) /\ (LocalCloseQueue(u) \/ LocalCloseManager(u)) =>
               /\ lm' = lm
               /\ \A v \in DOMAIN ends :
                     /\ ends'[v].isClosed = ends[v].isClosed
                     /\ ends'[v].queue = ends[v].queue]_vars
\* a second Close has returned on an end of one connection while another
\* connection is open
C40_Witness ==
    /\ localCall.op = "close" /\ localCall.err = "nil" /\ localCall.again
    /\ Cardinality(lm.queues) = 2
    /\ Cardinality(OpenConnections) = 1
    /\ \E u \in DOMAIN ends : LocalClosed(u) /\ ends[ends[u].remote].closing = "done"
                               /\ ends[u].closing = "done"
====
